---- MODULE Spec2Model ----
(***************************************************************************)
(* The Lost Prison: the frame update pipeline (state/gameLoop.ts) and the  *)
(* world helpers it calls (state/gameState.ts).                            *)
(*                                                                         *)
(* Lengths.  The code computes on IEEE doubles; every constant it uses has *)
(* at most one decimal digit (0.5, -9.1, 1.5), so positions and velocities *)
(* are held here as integers counted in tenths of a pixel (PX units per    *)
(* pixel).  The one operation that leaves that lattice is the horizontal   *)
(* damping velocityX *= 0.85, which is truncated toward zero to the next   *)
(* tenth (see movePlayerHorizontal).  Grid coordinates are whole cells.    *)
(***************************************************************************)
EXTENDS Integers, Sequences, FiniteSets, TLC

\* ------------------------------------------------------------------------
\* Constants of src/types.ts
\* ------------------------------------------------------------------------
PX == 2 * 5
TILE_SIZE == 40
TILE == TILE_SIZE * PX
GRAVITY == PX \div 2
JUMP_POWER == 0 - (9 * PX + 1)
MOVE_SPEED == 4 * PX
BULLET_SPEED == 8 * PX
BOMB_BLAST_RADIUS == 2

Empty == 0
Wall == 1
Stone == 2
Lava == 3
Platform == 10

\* constants written inline in the code
MAX_FALL == 15 * PX
DAMAGE_COOLDOWN == 60
SHAKE_FRAMES == 30
BOMB_TIMER == 90
WARNING_FRAMES == 30
FRAMES_PER_BLOCK == 9
AMMO_PER_WEAPON == 10
BOMBS_PER_PICKUP == 3
ANIMATION_FRAMES == 1000
ENTITY_SIZE == 30 * PX
SPAWN_OFFSET == 5 * PX
MONSTER_SPEED == (3 * PX) \div 2
MONSTER_HEALTH == 3
START_HEALTH == 5

\* ------------------------------------------------------------------------
\* Small helpers
\* ------------------------------------------------------------------------
Max2(a, b) == IF a >= b THEN a ELSE b

Min2(a, b) == IF a <= b THEN a ELSE b
Min4(a, b, c, d) == Min2(Min2(a, b), Min2(c, d))
Abs(a) == IF a >= 0 THEN a ELSE 0 - a

\* Math.floor(v / TILE_SIZE) for a length v in tenths of a pixel
Cell(v) == v \div TILE

GridHeight(grid) == Len(grid)
GridWidth(grid) == Len(grid[1])
InGrid(grid, cx, cy) ==
  /\ cx >= 0 /\ cx < GridWidth(grid)
  /\ cy >= 0 /\ cy < GridHeight(grid)
\* grid[cy][cx] with the code's 0-based indices
TileAt(grid, cx, cy) == grid[cy + 1][cx + 1]

TileBox(cx, cy) ==
  [x |-> cx * TILE, y |-> cy * TILE, width |-> TILE, height |-> TILE]

\* ------------------------------------------------------------------------
\* gameState.ts: collision primitives
\* ------------------------------------------------------------------------
checkCollision(a, b) ==
  /\ a.x < b.x + b.width
  /\ a.x + a.width > b.x
  /\ a.y < b.y + b.height
  /\ a.y + a.height > b.y

resolveCollision(player, box) ==
  LET overlapLeft == player.x + player.width - box.x
      overlapRight == box.x + box.width - player.x
      overlapTop == player.y + player.height - box.y
      overlapBottom == box.y + box.height - player.y
      minOverlap == Min4(overlapLeft, overlapRight, overlapTop, overlapBottom)
  IN  IF minOverlap = overlapTop /\ player.velocityY > 0
      THEN [player EXCEPT !.y = box.y - player.height,
                          !.velocityY = 0,
                          !.onGround = TRUE]
      ELSE IF minOverlap = overlapBottom /\ player.velocityY < 0
      THEN [player EXCEPT !.y = box.y + box.height, !.velocityY = 0]
      ELSE IF minOverlap = overlapLeft
      THEN [player EXCEPT !.x = box.x - player.width, !.velocityX = 0]
      ELSE IF minOverlap = overlapRight
      THEN [player EXCEPT !.x = box.x + box.width, !.velocityX = 0]
      ELSE player

\* if (checkCollision(player, box)) resolveCollision(player, box)
Collide(player, box) ==
  IF checkCollision(player, box) THEN resolveCollision(player, box) ELSE player

applyGravity(player) ==
  LET v == player.velocityY + GRAVITY
  IN  [player EXCEPT !.velocityY = IF v > MAX_FALL THEN MAX_FALL ELSE v]

jump(player) == [player EXCEPT !.velocityY = JUMP_POWER]

\* velocityX *= 0.85, truncated toward zero to a tenth of a pixel
Damp(v) == IF v >= 0 THEN (v * 85) \div 100 ELSE 0 - (((0 - v) * 85) \div 100)

movePlayerHorizontal(player, direction) ==
  IF direction = 0
  THEN [player EXCEPT !.velocityX = Damp(player.velocityX)]
  ELSE [player EXCEPT !.velocityX = MOVE_SPEED * direction,
                      !.facingRight = direction > 0]

createPlacedBomb(player) ==
  [x |-> Cell(player.x + 15 * PX), y |-> Cell(player.y + 15 * PX),
   timer |-> BOMB_TIMER]

createPlayerBullet(player) ==
  [x |-> player.x + (IF player.facingRight THEN 30 * PX ELSE 0),
   y |-> player.y + 15 * PX,
   velocityX |-> IF player.facingRight THEN BULLET_SPEED ELSE 0 - BULLET_SPEED,
   width |-> 8 * PX, height |-> 4 * PX]

\* ------------------------------------------------------------------------
\* gameLoop.ts: the stages of one frame.  A stage takes the working copy
\* (nextState, whose player field is the code's `player` alias) and returns
\* it updated; stages that report something return [state, flag].
\* ------------------------------------------------------------------------
IsSolidForPlayer(tile) ==
  tile = Wall \/ tile = Stone \/ tile = Lava \/ tile = Platform

IsSolidForMonster(tile) ==
  tile = Wall \/ tile = Stone \/ tile = Platform

\* the 4x4 scan, dy = -1..2 outer, dx = -1..2 inner, around the cell the
\* player had when the scan started
RECURSIVE TileScan(_, _, _, _, _)
TileScan(grid, player, gridX, gridY, k) ==
  IF k > 15 THEN player
  ELSE LET checkX == gridX + (k % 4) - 1
           checkY == gridY + (k \div 4) - 1
           hit == /\ InGrid(grid, checkX, checkY)
                  /\ IsSolidForPlayer(TileAt(grid, checkX, checkY))
           next == IF hit THEN Collide(player, TileBox(checkX, checkY))
                   ELSE player
       IN  TileScan(grid, next, gridX, gridY, k + 1)

RECURSIVE TrapScan(_, _, _)
TrapScan(traps, player, i) ==
  IF i > Len(traps) THEN player
  ELSE TrapScan(traps, Collide(player, TileBox(traps[i].x, traps[i].y)), i + 1)

\* the scan with three boundary walls: none above the grid
handleTileCollisionsNoCeiling(state) ==
  LET p0 == [state.player EXCEPT !.onGround = FALSE]
      p1 == TileScan(state.grid, p0, Cell(p0.x), Cell(p0.y), 0)
      gridWidth == GridWidth(state.grid) * TILE
      gridHeight == GridHeight(state.grid) * TILE
      p2 == Collide(p1, [x |-> 0 - TILE, y |-> 0,
                         width |-> TILE, height |-> gridHeight])
      p3 == Collide(p2, [x |-> gridWidth, y |-> 0,
                         width |-> TILE, height |-> gridHeight])
      p5 == Collide(p3, [x |-> 0, y |-> gridHeight,
                         width |-> gridWidth, height |-> TILE])
      p6 == TrapScan(state.firetraps, p5, 1)
  IN  [state EXCEPT !.player = p6]

\* the scan without the reset of onGround
handleTileCollisionsKeep(state) ==
  LET p0 == state.player
      p1 == TileScan(state.grid, p0, Cell(p0.x), Cell(p0.y), 0)
      gridWidth == GridWidth(state.grid) * TILE
      gridHeight == GridHeight(state.grid) * TILE
      p2 == Collide(p1, [x |-> 0 - TILE, y |-> 0,
                         width |-> TILE, height |-> gridHeight])
      p3 == Collide(p2, [x |-> gridWidth, y |-> 0,
                         width |-> TILE, height |-> gridHeight])
      p4 == Collide(p3, [x |-> 0, y |-> 0 - TILE,
                         width |-> gridWidth, height |-> TILE])
      p5 == Collide(p4, [x |-> 0, y |-> gridHeight,
                         width |-> gridWidth, height |-> TILE])
      p6 == TrapScan(state.firetraps, p5, 1)
  IN  [state EXCEPT !.player = p6]

handleTileCollisions(state) ==
  LET p0 == [state.player EXCEPT !.onGround = FALSE]
      p1 == TileScan(state.grid, p0, Cell(p0.x), Cell(p0.y), 0)
      gridWidth == GridWidth(state.grid) * TILE
      gridHeight == GridHeight(state.grid) * TILE
      wallThickness == TILE
      leftWall == [x |-> 0 - wallThickness, y |-> 0,
                   width |-> wallThickness, height |-> gridHeight]
      rightWall == [x |-> gridWidth, y |-> 0,
                    width |-> wallThickness, height |-> gridHeight]
      topWall == [x |-> 0, y |-> 0 - wallThickness,
                  width |-> gridWidth, height |-> wallThickness]
      bottomWall == [x |-> 0, y |-> gridHeight,
                     width |-> gridWidth, height |-> wallThickness]
      p2 == Collide(p1, leftWall)
      p3 == Collide(p2, rightWall)
      p4 == Collide(p3, topWall)
      p5 == Collide(p4, bottomWall)
      p6 == TrapScan(state.firetraps, p5, 1)
  IN  [state EXCEPT !.player = p6]

\* the wall test without the trap blocks
MonsterHitsWallTilesOnly(state, m) ==
  \E dy \in 0..1, dx \in -1..1 :
    /\ InGrid(state.grid, Cell(m.x) + dx, Cell(m.y) + dy)
    /\ IsSolidForMonster(TileAt(state.grid, Cell(m.x) + dx, Cell(m.y) + dy))
    /\ checkCollision(m, TileBox(Cell(m.x) + dx, Cell(m.y) + dy))

\* one monster's move: the attempted position, the wall / trap / patrol test
MonsterHitsWall(state, m) ==
  LET monsterGridX == Cell(m.x)
      monsterGridY == Cell(m.y)
      tileHit == \E dy \in 0..1, dx \in -1..1 :
                   /\ InGrid(state.grid, monsterGridX + dx, monsterGridY + dy)
                   /\ IsSolidForMonster(
                        TileAt(state.grid, monsterGridX + dx, monsterGridY + dy))
                   /\ checkCollision(m, TileBox(monsterGridX + dx,
                                                monsterGridY + dy))
      trapHit == \E i \in 1..Len(state.firetraps) :
                   checkCollision(m, TileBox(state.firetraps[i].x,
                                             state.firetraps[i].y))
  IN  tileHit \/ trapHit

\* a monster that turns where it should but keeps the attempted position
MoveMonsterSlide(state, monster) ==
  LET moved == [monster EXCEPT !.x = monster.x + monster.speed * monster.direction]
      hitWall == MonsterHitsWall(state, moved)
      gridX == Cell(moved.x)
  IN  IF hitWall \/ gridX <= monster.patrol[1] \/ gridX >= monster.patrol[2]
      THEN [moved EXCEPT !.direction = IF monster.direction = 1 THEN -1 ELSE 1]
      ELSE moved

\* a monster that turns only once it is past its patrol bounds
MoveMonsterLate(state, monster) ==
  LET moved == [monster EXCEPT !.x = monster.x + monster.speed * monster.direction]
      hitWall == MonsterHitsWall(state, moved)
      gridX == Cell(moved.x)
  IN  IF hitWall \/ gridX < monster.patrol[1] \/ gridX > monster.patrol[2]
      THEN [monster EXCEPT !.direction = IF monster.direction = 1 THEN -1 ELSE 1]
      ELSE moved

MoveMonster(state, monster) ==
  LET moved == [monster EXCEPT !.x = monster.x + monster.speed * monster.direction]
      hitWall == MonsterHitsWall(state, moved)
      gridX == Cell(moved.x)
  IN  IF hitWall \/ gridX <= monster.patrol[1] \/ gridX >= monster.patrol[2]
      THEN [monster EXCEPT !.direction = IF monster.direction = 1 THEN -1 ELSE 1]
      ELSE moved

\* contact damage of one monster, gated by damageTimer === 0
MonsterContact(state, monster) ==
  checkCollision(state.player, monster) /\ state.damageTimer = 0

\* monster i, moved, hurts the player it touches
MonsterStep(r, i) ==
  LET hurt == MonsterContact(r.state, r.state.monsters[i])
  IN  [state |-> IF hurt
                 THEN [r.state EXCEPT !.health = r.state.health - 1,
                                      !.damageTimer = DAMAGE_COOLDOWN]
                 ELSE r.state,
       flag |-> r.flag \/ hurt]

PlaceMonster(r, i, monster) == [r EXCEPT !.state.monsters[i] = monster]

\* r is [state, flag]: the working copy and tookDamage so far
RECURSIVE MonsterLoop(_, _)
MonsterLoop(r, i) ==
  IF i > Len(r.state.monsters) THEN r
  ELSE MonsterLoop(
         MonsterStep(PlaceMonster(r, i, MoveMonster(r.state, r.state.monsters[i])),
                     i),
         i + 1)

updateMonsters(state) == MonsterLoop([state |-> state, flag |-> FALSE], 1)

handleLavaDamage(state) ==
  IF state.damageTimer > 0
  THEN [state |-> [state EXCEPT !.damageTimer = state.damageTimer - 1],
        flag |-> FALSE]
  ELSE LET player == state.player
           playerBottomY == Cell(player.y + player.height)
           playerCenterX == Cell(player.x + player.width \div 2)
       IN  IF /\ InGrid(state.grid, playerCenterX, playerBottomY)
              /\ TileAt(state.grid, playerCenterX, playerBottomY) = Lava
              /\ player.onGround
           THEN [state |-> [state EXCEPT !.health = state.health - 1,
                                         !.damageTimer = DAMAGE_COOLDOWN,
                                         !.player.shaking = TRUE,
                                         !.player.shakeTimer = SHAKE_FRAMES],
                 flag |-> TRUE]
           ELSE [state |-> state, flag |-> FALSE]

\* variant: every door is a solid block, open or not
RECURSIVE DoorLoopSolid(_, _, _)
DoorLoopSolid(doors, player, i) ==
  IF i > Len(doors) THEN player
  ELSE DoorLoopSolid(doors,
                     Collide(player, TileBox(doors[i].x, doors[i].y)),
                     i + 1)

\* closed doors are solid blocks (collision only)
RECURSIVE DoorLoop(_, _, _)
DoorLoop(doors, player, i) ==
  IF i > Len(doors) THEN player
  ELSE LET door == doors[i]
           next == IF ~door.open
                   THEN Collide(player, TileBox(door.x, door.y))
                   ELSE player
       IN  DoorLoop(doors, next, i + 1)

\* variant: a closed door touched while a key is held opens and takes the
\* key (the contact rule of openDoorIfPossible)
handleDoorCollisionsByContact(state) ==
  LET touched == {i \in 1..Len(state.doors) :
                    /\ ~state.doors[i].open
                    /\ checkCollision(state.player,
                                      TileBox(state.doors[i].x, state.doors[i].y))}
  IN  IF touched # {} /\ state.keys > 0
      THEN LET i == CHOOSE j \in touched : \A k \in touched : j <= k
           IN  [state EXCEPT !.doors[i].open = TRUE, !.keys = state.keys - 1]
      ELSE [state EXCEPT !.player = DoorLoop(state.doors, state.player, 1)]

handleDoorCollisions(state) ==
  [state EXCEPT !.player = DoorLoop(state.doors, state.player, 1)]

\* variant: the proximity test on the vertical axis only
DoorInReachUpright(player, door) ==
  LET doorCenterY == door.y * TILE + TILE \div 2
      playerCenterY == player.y + player.height \div 2
  IN  Abs(playerCenterY - doorCenterY) <= (TILE * 3) \div 2

\* the proximity test of tryOpenDoor: |center - center| <= 1.5 tiles per axis
DoorInReach(player, door) ==
  LET doorCenterX == door.x * TILE + TILE \div 2
      doorCenterY == door.y * TILE + TILE \div 2
      playerCenterX == player.x + player.width \div 2
      playerCenterY == player.y + player.height \div 2
      distanceX == Abs(playerCenterX - doorCenterX)
      distanceY == Abs(playerCenterY - doorCenterY)
      maxDistance == (TILE * 3) \div 2
  IN  distanceX <= maxDistance /\ distanceY <= maxDistance

\* a door that opens without taking a key
OpenStepKeepsKey(r, i, door) ==
  LET opens == /\ ~door.open
               /\ r.state.keys > 0
               /\ DoorInReach(r.state.player, door)
  IN  [state |-> IF opens
                 THEN [r.state EXCEPT !.doors[i].open = TRUE]
                 ELSE r.state,
       flag |-> r.flag \/ opens]

OpenStep(r, i, door) ==
  LET opens == /\ ~door.open
               /\ r.state.keys > 0
               /\ DoorInReach(r.state.player, door)
  IN  [state |-> IF opens
                 THEN [r.state EXCEPT !.doors[i].open = TRUE,
                                      !.keys = r.state.keys - 1]
                 ELSE r.state,
       flag |-> r.flag \/ opens]

\* r is [state, flag]: the state and openedDoor so far
RECURSIVE OpenLoop(_, _)
OpenLoop(r, i) ==
  IF i > Len(r.state.doors) THEN r
  ELSE OpenLoop(OpenStep(r, i, r.state.doors[i]), i + 1)

tryOpenDoor(state) == OpenLoop([state |-> state, flag |-> FALSE], 1)

\* the effect of picking up one item
ApplyPickup(state, item) ==
  IF item.type = "key" THEN [state EXCEPT !.keys = state.keys + 1]
  ELSE IF item.type = "weapon"
  THEN [state EXCEPT !.player.hasWeapon = TRUE,
                     !.ammo = state.ammo + AMMO_PER_WEAPON]
  ELSE IF item.type = "bomb"
  THEN [state EXCEPT !.bombCount = state.bombCount + BOMBS_PER_PICKUP]
  ELSE IF item.type = "heart"
  THEN [state EXCEPT !.health = Min2(state.maxHealth, state.health + 1)]
  ELSE state

\* variant: the pickup applied to an overlapped item, collected or not
CollectStepAgain(r, i, item) ==
  LET picks == checkCollision(r.state.player, item)
  IN  [state |-> IF picks
                 THEN ApplyPickup([r.state EXCEPT !.collectibles[i].collected = TRUE],
                                  item)
                 ELSE r.state,
       flag |-> r.flag \/ picks]

CollectStep(r, i, item) ==
  LET picks == ~item.collected /\ checkCollision(r.state.player, item)
  IN  [state |-> IF picks
                 THEN ApplyPickup([r.state EXCEPT !.collectibles[i].collected = TRUE],
                                  item)
                 ELSE r.state,
       flag |-> r.flag \/ picks]

\* r is [state, flag]: the working copy and collected so far
RECURSIVE CollectLoop(_, _)
CollectLoop(r, i) ==
  IF i > Len(r.state.collectibles) THEN r
  ELSE CollectLoop(CollectStep(r, i, r.state.collectibles[i]), i + 1)

collectItems(state) == CollectLoop([state |-> state, flag |-> FALSE], 1)

\* a trap that changes phase one tick late, when the timer is below 0
TrapTickLate(trap) ==
  LET t1 == [trap EXCEPT !.timer = trap.timer - 1]
      t2 == IF t1.timer < 0
            THEN IF t1.isActive
                 THEN [t1 EXCEPT !.isActive = FALSE, !.warning = FALSE,
                                 !.fireBlocks = << >>, !.timer = t1.restTime]
                 ELSE [t1 EXCEPT !.warning = FALSE, !.isActive = TRUE,
                                 !.fireBlocks = << >>, !.timer = t1.sprayTime]
            ELSE t1
  IN  IF ~t2.isActive /\ t2.timer <= WARNING_FRAMES /\ t2.timer > 0
      THEN [t2 EXCEPT !.warning = TRUE]
      ELSE IF t2.isActive THEN [t2 EXCEPT !.warning = FALSE]
      ELSE t2

\* a trap whose warning, once raised, is never taken back
TrapTickStuck(trap) ==
  LET t1 == [trap EXCEPT !.timer = trap.timer - 1]
      t2 == IF t1.timer <= 0
            THEN IF t1.isActive
                 THEN [t1 EXCEPT !.isActive = FALSE,
                                 !.fireBlocks = << >>, !.timer = t1.restTime]
                 ELSE [t1 EXCEPT !.isActive = TRUE,
                                 !.fireBlocks = << >>, !.timer = t1.sprayTime]
            ELSE t1
  IN  IF ~t2.isActive /\ t2.timer <= WARNING_FRAMES /\ t2.timer > 0
      THEN [t2 EXCEPT !.warning = TRUE]
      ELSE t2

\* fire traps: timer, phase change, warning flag
TrapTick(trap) ==
  LET t1 == [trap EXCEPT !.timer = trap.timer - 1]
      t2 == IF t1.timer <= 0
            THEN IF t1.isActive
                 THEN [t1 EXCEPT !.isActive = FALSE, !.warning = FALSE,
                                 !.fireBlocks = << >>, !.timer = t1.restTime]
                 ELSE [t1 EXCEPT !.warning = FALSE, !.isActive = TRUE,
                                 !.fireBlocks = << >>, !.timer = t1.sprayTime]
            ELSE t1
  IN  IF ~t2.isActive /\ t2.timer <= WARNING_FRAMES /\ t2.timer > 0
      THEN [t2 EXCEPT !.warning = TRUE]
      ELSE IF t2.isActive THEN [t2 EXCEPT !.warning = FALSE]
      ELSE t2

FireCell(trap, i) ==
  IF trap.direction = "up" THEN [x |-> trap.x, y |-> trap.y - i]
  ELSE IF trap.direction = "down" THEN [x |-> trap.x, y |-> trap.y + i]
  ELSE IF trap.direction = "left" THEN [x |-> trap.x - i, y |-> trap.y]
  ELSE [x |-> trap.x + i, y |-> trap.y]

CellInGrid(grid, c) == InGrid(grid, c.x, c.y)

\* the fire positions without the test of the grid bounds
FireBlocksOfUnclipped(trap, grid) ==
  LET framesSinceActivation == trap.sprayTime - trap.timer
      blocksToShow == Min2(framesSinceActivation \div FRAMES_PER_BLOCK + 1,
                           trap.sprayDistance)
  IN  [i \in 1..blocksToShow |-> FireCell(trap, i)]

\* the fire positions of an active trap, clipped to the grid
FireBlocksOf(trap, grid) ==
  LET framesSinceActivation == trap.sprayTime - trap.timer
      blocksToShow == Min2(framesSinceActivation \div FRAMES_PER_BLOCK + 1,
                           trap.sprayDistance)
      all == [i \in 1..blocksToShow |-> FireCell(trap, i)]
  IN  SelectSeq(all, LAMBDA c : CellInGrid(grid, c))

TouchesFire(player, fireBlocks) ==
  \E i \in 1..Len(fireBlocks) :
    checkCollision(player, TileBox(fireBlocks[i].x, fireBlocks[i].y))

\* fire damage of one trap, gated by damageTimer <= 0
FireBurnsUngated(state, fireBlocks) == TouchesFire(state.player, fireBlocks)

FireBurns(state, fireBlocks) ==
  state.damageTimer <= 0 /\ TouchesFire(state.player, fireBlocks)

\* an active trap: its fire blocks stored, then the damage test
SprayStep(r, i, t, fireBlocks) ==
  LET s1 == [r.state EXCEPT !.firetraps[i] = [t EXCEPT !.fireBlocks = fireBlocks]]
      burns == FireBurns(s1, fireBlocks)
  IN  [state |-> IF burns
                 THEN [s1 EXCEPT !.health = s1.health - 1,
                                 !.damageTimer = DAMAGE_COOLDOWN,
                                 !.player.shaking = TRUE,
                                 !.player.shakeTimer = SHAKE_FRAMES]
                 ELSE s1,
       flag |-> r.flag \/ burns]

\* trap i after its timer step t
TrapStep(r, i, t) ==
  IF ~t.isActive THEN [r EXCEPT !.state.firetraps[i] = t]
  ELSE SprayStep(r, i, t, FireBlocksOf(t, r.state.grid))

\* r is [state, flag]: the working copy and tookFireDamage so far
RECURSIVE FireLoop(_, _)
FireLoop(r, i) ==
  IF i > Len(r.state.firetraps) THEN r
  ELSE FireLoop(TrapStep(r, i, TrapTick(r.state.firetraps[i])), i + 1)

updateFireTraps(state) == FireLoop([state |-> state, flag |-> FALSE], 1)

handleGoal(state) ==
  /\ state.goalPos # << >>
  /\ checkCollision(state.player, TileBox(state.goalPos[1].x, state.goalPos[1].y))

\* gameState.ts: bullets.  A bullet damages every live monster it overlaps
\* and is then dropped; otherwise it is kept unless it left the grid or
\* entered a Wall cell.
BulletHits(bullet, monster) ==
  monster.health > 0 /\ checkCollision(bullet, monster)

\* a bullet that only the grid bounds stop
BulletGoneOpen(bullet, grid) == ~InGrid(grid, Cell(bullet.x), Cell(bullet.y))

BulletGone(bullet, grid) ==
  LET gridX == Cell(bullet.x)
      gridY == Cell(bullet.y)
  IN  \/ ~InGrid(grid, gridX, gridY)
      \/ TileAt(grid, gridX, gridY) = Wall

RECURSIVE BulletLoop(_, _, _, _, _)
BulletLoop(bullets, grid, nextBullets, nextMonsters, i) ==
  IF i > Len(bullets)
  THEN [bullets |-> nextBullets,
        monsters |-> SelectSeq(nextMonsters, LAMBDA m : m.health > 0)]
  ELSE LET nextBullet == [bullets[i] EXCEPT !.x = bullets[i].x + bullets[i].velocityX]
           hitMonster == \E j \in 1..Len(nextMonsters) :
                           BulletHits(nextBullet, nextMonsters[j])
           hurt == [j \in 1..Len(nextMonsters) |->
                      IF BulletHits(nextBullet, nextMonsters[j])
                      THEN [nextMonsters[j] EXCEPT !.health = nextMonsters[j].health - 1]
                      ELSE nextMonsters[j]]
       IN  IF hitMonster
           THEN BulletLoop(bullets, grid, nextBullets, hurt, i + 1)
           ELSE IF ~BulletGone(nextBullet, grid)
           THEN BulletLoop(bullets, grid, Append(nextBullets, nextBullet),
                           nextMonsters, i + 1)
           ELSE BulletLoop(bullets, grid, nextBullets, nextMonsters, i + 1)

updateBullets(bullets, grid, monsters) ==
  BulletLoop(bullets, grid, << >>, monsters, 1)

\* gameState.ts: placed bombs
InBlast(bomb, cx, cy) ==
  /\ Abs(cx - bomb.x) <= BOMB_BLAST_RADIUS
  /\ Abs(cy - bomb.y) <= BOMB_BLAST_RADIUS

\* variant: the blast clears every tile type
DetonateAnything(grid, bomb) ==
  [r \in 1..Len(grid) |->
    [c \in 1..Len(grid[r]) |->
      IF InBlast(bomb, c - 1, r - 1) THEN Empty ELSE grid[r][c]]]

Detonate(grid, bomb) ==
  [r \in 1..Len(grid) |->
    [c \in 1..Len(grid[r]) |->
      IF InBlast(bomb, c - 1, r - 1) /\ grid[r][c] = Stone
      THEN Empty ELSE grid[r][c]]]

RECURSIVE BombLoop(_, _, _, _)
BombLoop(placedBombs, nextGrid, activeBombs, i) ==
  IF i > Len(placedBombs) THEN [bombs |-> activeBombs, grid |-> nextGrid]
  ELSE LET bomb == placedBombs[i]
           nextTimer == bomb.timer - 1
       IN  IF nextTimer <= 0
           THEN BombLoop(placedBombs, Detonate(nextGrid, bomb), activeBombs, i + 1)
           ELSE BombLoop(placedBombs, nextGrid,
                         Append(activeBombs, [bomb EXCEPT !.timer = nextTimer]),
                         i + 1)

\* variant: the fuse burns two units a tick
updatePlacedBombsFast(placedBombs, grid) ==
  BombLoop([i \in 1..Len(placedBombs) |->
              [placedBombs[i] EXCEPT !.timer = placedBombs[i].timer - 1]],
           grid, << >>, 1)

updatePlacedBombs(placedBombs, grid) == BombLoop(placedBombs, grid, << >>, 1)

\* the `exploded` result the frame reads from updatePlacedBombs
BombExploded(placedBombs) ==
  \E i \in 1..Len(placedBombs) : placedBombs[i].timer - 1 <= 0

\* ------------------------------------------------------------------------
\* gameLoop.ts: updateGameFrame
\* ------------------------------------------------------------------------
NoEvents ==
  [levelComplete |-> FALSE, playerDied |-> FALSE, doorOpened |-> FALSE,
   tookDamage |-> FALSE, itemCollected |-> FALSE, bombExploded |-> FALSE]

DeathEvents == [NoEvents EXCEPT !.playerDied = TRUE, !.tookDamage = TRUE]

\* keys.ArrowLeft || keys.a || keys.A ? -1 : keys.ArrowRight || ... ? 1 : 0
HorizontalDirection(keys) ==
  IF keys.left THEN -1 ELSE IF keys.right THEN 1 ELSE 0

\* input, gravity, integration and the tile scan
MovePlayer(state, keys) ==
  LET p1 == movePlayerHorizontal(state.player, HorizontalDirection(keys))
      p2 == applyGravity(p1)
      p3 == [p2 EXCEPT !.x = p2.x + p2.velocityX, !.y = p2.y + p2.velocityY]
  IN  handleTileCollisions([state EXCEPT !.player = p3])

\* a stage's result with its flag joined to the stages before it
After(flag, r) == [state |-> r.state, flag |-> flag \/ r.flag]

LavaStage(m) == After(m.flag, handleLavaDamage(m.state))

FireStage(l) == After(l.flag, updateFireTraps(l.state))

\* the three damage stages, in order, on the moved state:
\* tookDamage = monsterDamage || lavaDamage || fireDamage
DamageStages(state) == FireStage(LavaStage(updateMonsters(state)))

TickShake(player) ==
  IF player.shakeTimer > 0
  THEN IF player.shakeTimer - 1 <= 0
       THEN [player EXCEPT !.shaking = FALSE, !.shakeTimer = 0]
       ELSE [player EXCEPT !.shakeTimer = player.shakeTimer - 1]
  ELSE player

\* the stages after the death check; each takes and returns r = [state,
\* events], the working copy and the events gathered so far
Collected(c, tookDamage) ==
  [state |-> c.state,
   events |-> [NoEvents EXCEPT !.tookDamage = tookDamage,
                               !.itemCollected = c.flag]]

WithBullets(r, b) ==
  [r EXCEPT !.state.bullets = b.bullets, !.state.monsters = b.monsters]

BulletStage(r) ==
  WithBullets(r, updateBullets(r.state.bullets, r.state.grid, r.state.monsters))

WithBombs(r, e) ==
  [r EXCEPT !.state.placedBombs = e.bombs,
            !.state.grid = e.grid,
            !.events.bombExploded = BombExploded(r.state.placedBombs)]

BombStage(r) ==
  WithBombs(r, updatePlacedBombs(r.state.placedBombs, r.state.grid))

GoalStage(r) == [r EXCEPT !.events.levelComplete = handleGoal(r.state)]

EndOfFrame(r) ==
  [r EXCEPT !.state.animationFrame =
              (r.state.animationFrame + 1) % ANIMATION_FRAMES,
            !.state.player = TickShake(r.state.player)]

\* everything after the death check
LaterStages(state, tookDamage) ==
  EndOfFrame(GoalStage(BombStage(BulletStage(
    Collected(collectItems(handleDoorCollisions(state)), tookDamage)))))

\* variant: the death check made after the later stages have run
DeathCheckAfterStages(d) ==
  LET l == LaterStages(d.state, d.flag)
  IN  IF d.flag /\ d.state.health <= 0
      THEN [state |-> [l.state EXCEPT !.deaths = l.state.deaths + 1],
            events |-> [l.events EXCEPT !.playerDied = TRUE]]
      ELSE l

\* if (tookDamage && nextState.health <= 0) return; else the later stages
DeathCheck(d) ==
  IF d.flag /\ d.state.health <= 0
  THEN [state |-> [d.state EXCEPT !.deaths = d.state.deaths + 1],
        events |-> DeathEvents]
  ELSE LaterStages(d.state, d.flag)

\* variant: the animation counter runs before the grid is looked at
updateGameFrameTicking(state, keys) ==
  IF Len(state.grid) = 0
  THEN [state |-> [state EXCEPT !.animationFrame =
                     (state.animationFrame + 1) % ANIMATION_FRAMES],
        events |-> NoEvents]
  ELSE DeathCheck(DamageStages(MovePlayer(state, keys)))

updateGameFrame(state, keys) ==
  IF Len(state.grid) = 0 THEN [state |-> state, events |-> NoEvents]
  ELSE DeathCheck(DamageStages(MovePlayer(state, keys)))

\* The objects of a snapshot: the GameState object itself (its counters and
\* its references to the collections below), the player object, the
\* elements of each array, each trap's fireBlocks array and the grid rows.
Parts ==
  {"snapshot", "player", "monsters", "collectibles", "doors", "bullets",
   "placedBombs", "firetraps", "fireBlocks", "grid"}

\* a clone by { ...state } alone: one new object, every part below it shared
cloneStateShallow == {"snapshot"}

\* the parts for which cloneState builds new objects; a stage that writes to
\* such a part of the working copy leaves the object of the input alone
cloneState ==
  {"snapshot", "player", "monsters", "collectibles", "doors", "bullets",
   "placedBombs", "firetraps", "fireBlocks", "grid"}

Aliased(part) == part \notin cloneState

\* The input snapshot as its holder reads it after updateGameFrame(state,
\* keys) has returned.  The stages assign to fields of the working copy, of
\* its player, of its monsters (updateMonsters, before updateBullets copies
\* them again), of its collectibles and of its fire traps; bullets, placed
\* bombs, grid rows and fireBlocks are only ever replaced by new arrays.
HeldAfter(state, keys) ==
  IF Len(state.grid) = 0 THEN state
  ELSE IF Aliased("snapshot") THEN updateGameFrame(state, keys).state
  ELSE [state EXCEPT
          !.player = IF Aliased("player")
                     THEN updateGameFrame(state, keys).state.player ELSE @,
          !.monsters = IF Aliased("monsters")
                       THEN DamageStages(MovePlayer(state, keys)).state.monsters
                       ELSE @,
          !.collectibles = IF Aliased("collectibles")
                           THEN updateGameFrame(state, keys).state.collectibles
                           ELSE @,
          !.firetraps = IF Aliased("firetraps")
                        THEN updateGameFrame(state, keys).state.firetraps
                        ELSE @]

\* The open-door updater of the host: next = { ...prev }; tryOpenDoor(next).
\* The spread builds one new GameState object whose doors field refers to
\* the doors array of prev; tryOpenDoor assigns next.keys on the new object
\* and door.open on the elements of that array.
spreadCopy == {"snapshot"}

\* prev as its holder reads it after the updater has returned
HeldAfterOpen(prev) ==
  IF "snapshot" \notin spreadCopy THEN tryOpenDoor(prev).state
  ELSE IF "doors" \notin spreadCopy
  THEN [prev EXCEPT !.doors = tryOpenDoor(prev).state.doors]
  ELSE prev

\* ------------------------------------------------------------------------
\* gameState.ts: building the world from a level definition
\* ------------------------------------------------------------------------
gridToPixel(position) ==
  [x |-> position.x * TILE + SPAWN_OFFSET, y |-> position.y * TILE + SPAWN_OFFSET]

createInitialGameState ==
  [keys |-> 0, ammo |-> 0, bombCount |-> 0, deaths |-> 0,
   health |-> START_HEALTH, maxHealth |-> START_HEALTH, damageTimer |-> 0,
   grid |-> << >>, monsters |-> << >>, collectibles |-> << >>,
   doors |-> << >>, bullets |-> << >>, placedBombs |-> << >>,
   firetraps |-> << >>, goalPos |-> << >>, animationFrame |-> 0,
   player |-> [x |-> 40 * PX, y |-> 40 * PX,
               width |-> ENTITY_SIZE, height |-> ENTITY_SIZE,
               velocityX |-> 0, velocityY |-> 0,
               onGround |-> FALSE, hasWeapon |-> FALSE, facingRight |-> TRUE,
               shaking |-> FALSE, shakeTimer |-> 0]]

BuildMonster(monster) ==
  [x |-> monster.x * TILE + SPAWN_OFFSET, y |-> monster.y * TILE + SPAWN_OFFSET,
   patrol |-> monster.patrol, direction |-> 1, speed |-> MONSTER_SPEED,
   width |-> ENTITY_SIZE, height |-> ENTITY_SIZE, health |-> MONSTER_HEALTH]

BuildItems(positions, type) ==
  [i \in 1..Len(positions) |->
    [x |-> gridToPixel(positions[i]).x, y |-> gridToPixel(positions[i]).y,
     width |-> ENTITY_SIZE, height |-> ENTITY_SIZE,
     type |-> type, collected |-> FALSE]]

\* the runtime fire traps of a level (phase at rest, full rest timer)
BuildFireTraps(traps) ==
  [i \in 1..Len(traps) |->
    [x |-> traps[i].x, y |-> traps[i].y, direction |-> traps[i].direction,
     sprayDistance |-> traps[i].sprayDistance,
     sprayTime |-> traps[i].sprayTime, restTime |-> traps[i].restTime,
     timer |-> traps[i].restTime, isActive |-> FALSE, warning |-> FALSE,
     fireBlocks |-> << >>]]

buildGameStateFromLevel(levelData) ==
  LET s0 == createInitialGameState
      start == IF levelData.playerStart # << >>
               THEN gridToPixel(levelData.playerStart[1])
               ELSE [x |-> s0.player.x, y |-> s0.player.y]
  IN  [s0 EXCEPT
         !.grid = levelData.grid,
         !.goalPos = levelData.goal,
         !.player.x = start.x,
         !.player.y = start.y,
         !.monsters = [i \in 1..Len(levelData.monsters) |->
                         BuildMonster(levelData.monsters[i])],
         !.collectibles = BuildItems(levelData.keys, "key")
                          \o BuildItems(levelData.weapons, "weapon")
                          \o BuildItems(levelData.bombs, "bomb")
                          \o BuildItems(levelData.hearts, "heart")
                          \o BuildItems(levelData.coins, "coin"),
         !.doors = [i \in 1..Len(levelData.doors) |->
                      [x |-> levelData.doors[i].x, y |-> levelData.doors[i].y,
                       open |-> levelData.doors[i].open]],
         !.firetraps = BuildFireTraps(levelData.firetraps)]

\* ------------------------------------------------------------------------
\* Level definitions used by the checks (authored as the editor does: every
\* object sits on an Empty cell, one object per cell)
\* ------------------------------------------------------------------------
Pos(x, y) == [x |-> x, y |-> y]

EmptyLevel ==
  [grid |-> << >>, monsters |-> << >>, keys |-> << >>, weapons |-> << >>,
   bombs |-> << >>, hearts |-> << >>, coins |-> << >>, doors |-> << >>,
   firetraps |-> << >>, playerStart |-> << >>, goal |-> << >>]

\* a lava pit under the start cell, a monster walking in from the left and
\* a fire trap spraying down onto the start cell
LevelArena(restTime) ==
  [EmptyLevel EXCEPT
     !.grid = << <<Empty, Empty, Wall>>,
                 <<Empty, Empty, Wall>>,
                 <<Wall,  Lava,  Wall>> >>,
     !.playerStart = << Pos(1, 1) >>,
     !.goal = << Pos(0, 0) >>,
     !.monsters = << [x |-> 0, y |-> 1, patrol |-> <<-3, 3>>] >>,
     !.firetraps = << [x |-> 1, y |-> 0, direction |-> "down",
                       sprayDistance |-> 2, sprayTime |-> 4,
                       restTime |-> restTime] >>]

\* three doors around the start cell (two in reach of it, one not), keys
\* and a coin above it; the doors numbered in `openDoors` are stored open
LevelDoors(openDoors) ==
  [EmptyLevel EXCEPT
     !.grid = << <<Empty, Empty, Empty, Empty, Empty>>,
                 <<Empty, Empty, Empty, Empty, Empty>>,
                 <<Wall,  Wall,  Wall,  Wall,  Lava>> >>,
     !.playerStart = << Pos(2, 1) >>,
     !.goal = << Pos(0, 1) >>,
     !.keys = << Pos(2, 0), Pos(0, 0) >>,
     !.coins = << Pos(1, 0) >>,
     !.doors = << [x |-> 1, y |-> 1, open |-> 1 \in openDoors],
                  [x |-> 3, y |-> 1, open |-> 2 \in openDoors],
                  [x |-> 4, y |-> 0, open |-> 3 \in openDoors] >>]

\* terrain of every kind around the start cell, where bombs are placed; a
\* fire trap spraying down onto it, a heart to its left
LevelBombs ==
  [EmptyLevel EXCEPT
     !.grid = << <<Stone, Empty, Platform, Stone, Stone, Empty>>,
                 <<Empty, Empty, Stone,    Wall,  Empty, Stone>>,
                 <<Lava,  Wall,  Stone,    Lava,  Empty, Stone>> >>,
     !.playerStart = << Pos(1, 1) >>,
     !.goal = << Pos(4, 1) >>,
     !.weapons = << Pos(4, 2) >>,
     !.bombs = << Pos(5, 0) >>,
     !.hearts = << Pos(0, 1) >>,
     !.firetraps = << [x |-> 1, y |-> 0, direction |-> "down",
                       sprayDistance |-> 1, sprayTime |-> 4, restTime |-> 3] >>]

\* a corridor with one item next to the start cell
ItemTypes == {"key", "weapon", "bomb", "heart", "coin"}

LevelItems(type) ==
  [EmptyLevel EXCEPT
     !.grid = << <<Empty, Empty, Wall>>,
                 <<Empty, Empty, Wall>>,
                 <<Wall,  Wall,  Wall>> >>,
     !.playerStart = << Pos(0, 1) >>,
     !.goal = << Pos(1, 0) >>,
     !.keys = IF type = "key" THEN << Pos(1, 1) >> ELSE << >>,
     !.weapons = IF type = "weapon" THEN << Pos(1, 1) >> ELSE << >>,
     !.bombs = IF type = "bomb" THEN << Pos(1, 1) >> ELSE << >>,
     !.hearts = IF type = "heart" THEN << Pos(1, 1) >> ELSE << >>,
     !.coins = IF type = "coin" THEN << Pos(1, 1) >> ELSE << >>]

\* the corridor with a key next to the start cell and two closed doors in
\* reach of it, one of them in the wall
LevelKeyDoors ==
  [LevelItems("key") EXCEPT
     !.grid[1][3] = Empty,
     !.doors = << [x |-> 2, y |-> 0, open |-> FALSE],
                  [x |-> 0, y |-> 0, open |-> FALSE] >>]

\* a shaft one tile wide: the player drops onto a monster pacing at its
\* bottom, a fire trap in the shaft wall sprays across it
LevelShaft ==
  [EmptyLevel EXCEPT
     !.grid = << <<Wall,  Empty, Wall>>,
                 <<Empty, Empty, Wall>>,
                 <<Wall,  Wall,  Wall>> >>,
     !.playerStart = << Pos(1, 0) >>,
     !.goal = << >>,
     !.monsters = << [x |-> 1, y |-> 1, patrol |-> <<0, 2>>] >>,
     !.firetraps = << [x |-> 0, y |-> 1, direction |-> "right",
                       sprayDistance |-> 1, sprayTime |-> 20, restTime |-> 60] >>]

\* a cell closed on every side with a fire trap in its left wall: sprayed to
\* the right the fire fills the tile the player cannot leave, sprayed to the
\* left it falls outside the grid
LevelCell(direction, restTime, sprayTime) ==
  [EmptyLevel EXCEPT
     !.grid = << <<Empty, Empty, Wall>>,
                 <<Wall,  Wall,  Wall>> >>,
     !.playerStart = << Pos(1, 0) >>,
     !.goal = << >>,
     !.firetraps = << [x |-> 0, y |-> 0, direction |-> direction,
                       sprayDistance |-> 1, sprayTime |-> sprayTime,
                       restTime |-> restTime] >>]

\* a corridor for monsters above a floor, closed by a wall at column 4; the
\* player is shut in the cell behind that wall
LevelPatrol(monsters, firetraps) ==
  [EmptyLevel EXCEPT
     !.grid = << <<Empty, Empty, Empty, Empty, Wall, Empty>>,
                 <<Wall,  Wall,  Wall,  Wall,  Wall, Wall>> >>,
     !.playerStart = << Pos(5, 0) >>,
     !.goal = << >>,
     !.monsters = monsters,
     !.firetraps = firetraps]

\* monsters of the corridor: one pacing between columns 0 and 2 with one
\* that meets the wall before its bound, or one with the editor's patrol of
\* three columns to each side
\* editorState.ts: the monster the level editor places at (x, y) in a grid
\* of the given width
createMonsterAt(x, y, width) ==
  [x |-> x, y |-> y, patrol |-> <<Max2(0, x - 3), Min2(width - 1, x + 3)>>]

PacingPair == << [x |-> 1, y |-> 0, patrol |-> <<0, 2>>],
                 [x |-> 3, y |-> 0, patrol |-> <<1, 5>>] >>

Roamer == << [x |-> 1, y |-> 0, patrol |-> <<-2, 4>>] >>

\* traps of the corridor: one standing in it that sprays along it towards
\* the monster, one in the floor that sprays up into it
TrapInCorridor == << [x |-> 3, y |-> 0, direction |-> "left",
                      sprayDistance |-> 2, sprayTime |-> 60, restTime |-> 5] >>

\* two traps in the corridor: one sprays along it over three cells, one in
\* the floor sprays out of the grid after one cell and rests long enough
\* to warn
TrapPair ==
  << [x |-> 3, y |-> 0, direction |-> "left", sprayDistance |-> 3,
      sprayTime |-> 20, restTime |-> 3],
     [x |-> 1, y |-> 1, direction |-> "left", sprayDistance |-> 3,
      sprayTime |-> 12, restTime |-> 35] >>

TrapInFloor == << [x |-> 2, y |-> 1, direction |-> "up",
                   sprayDistance |-> 1, sprayTime |-> 60, restTime |-> 5] >>

\* a shooting range: the armed player at the left end of a corridor closed
\* by a wall, two monsters further along that walk into each other
LevelRange ==
  [EmptyLevel EXCEPT
     !.grid = << <<Empty, Empty, Empty, Empty, Empty, Empty, Wall>>,
                 <<Wall,  Wall,  Wall,  Wall,  Wall,  Wall,  Wall>> >>,
     !.playerStart = << Pos(0, 0) >>,
     !.goal = << >>,
     !.weapons = << Pos(1, 0) >>,
     !.monsters = << [x |-> 4, y |-> 0, patrol |-> <<1, 7>>],
                     [x |-> 5, y |-> 0, patrol |-> <<2, 8>>] >>]

\* one Stone block in the middle of an open grid
LevelBlock ==
  [EmptyLevel EXCEPT
     !.grid = << <<Empty, Empty, Empty>>,
                 <<Empty, Stone, Empty>>,
                 <<Empty, Empty, Empty>> >>,
     !.playerStart = << Pos(0, 0) >>,
     !.goal = << >>]

\* a level whose grid has no rows, with whatever else its file lists
LevelVoid(playerStart, monsters, firetraps, hearts, doors) ==
  [EmptyLevel EXCEPT
     !.playerStart = playerStart,
     !.monsters = monsters,
     !.firetraps = firetraps,
     !.hearts = hearts,
     !.doors = doors]

\* small grids whose edges the player reaches within a few frames: the
\* player starts in the top left cell, beside whatever the level lists
LevelEdge(grid, firetraps, doors) ==
  [EmptyLevel EXCEPT
     !.grid = grid,
     !.playerStart = << Pos(0, 0) >>,
     !.goal = << >>,
     !.firetraps = firetraps,
     !.doors = doors]

EdgeGrids ==
  {<< <<Empty>> >>,
   << <<Empty, Empty>> >>,
   << <<Empty, Stone>>, <<Empty, Empty>> >>,
   << <<Empty, Empty>>, <<Platform, Empty>> >>}

\* a trap and a closed door in the last column of the first row
TrapAtEdge == << [x |-> 1, y |-> 0, direction |-> "left",
                  sprayDistance |-> 1, sprayTime |-> 2, restTime |-> 2] >>

DoorAtEdge == << [x |-> 1, y |-> 0, open |-> FALSE] >>

\* ------------------------------------------------------------------------
\* The session: the host (pages/GamePage.tsx) holds one GameState and
\* replaces it by the result of a frame or of a key handler.
\* ------------------------------------------------------------------------
VARIABLES gs, events, opened, lastOp, ticks, sinceDamage, host

vars == <<gs, events, opened, lastOp, ticks, sinceDamage, host>>

\* bounds of the checks
MaxTicks == 6
LongTicks == 66
MaxFuse == 3
MaxBullets == 1
MaxBombs == 2
EdgeTicks == 11
MaxDeaths == 2
RaceTicks == 64
RunTicks == 3

KeyMaps == [left : BOOLEAN, right : BOOLEAN]

Released == [left |-> FALSE, right |-> FALSE]

\* A world some way into a session: the items numbered in `picked` were
\* collected earlier (their effects applied by the code's own pickup rule),
\* `spent` explosives were placed out of the explosive count, of which
\* `bombs` are still burning, and health was lost to damage whose cooldown
\* has run out since.
RECURSIVE Pick(_, _)
Pick(state, picked) ==
  IF picked = {} THEN state
  ELSE LET i == CHOOSE j \in picked : \A k \in picked : j <= k
       IN  Pick(ApplyPickup([state EXCEPT !.collectibles[i].collected = TRUE],
                            state.collectibles[i]),
                picked \ {i})

Snapshot(levelData, picked, health, spent, bombs) ==
  LET s == Pick(buildGameStateFromLevel(levelData), picked)
  IN  [s EXCEPT !.health = health,
                !.placedBombs = bombs,
                !.bombCount = s.bombCount - spent]

Fuses == 1..MaxFuse

BombAt(x, y, timer) == [x |-> x, y |-> y, timer |-> timer]

\* bombs laid earlier: one at the start cell, or one beside it and one on it
OneBomb == {<< BombAt(1, 1, f) >> : f \in Fuses}

TwoBombs == {<< BombAt(0, 1, f), BombAt(1, 1, MaxFuse) >> : f \in Fuses}

ArenaWorlds ==
  {Snapshot(LevelArena(r), {}, h, 0, << >>) : r \in {2, 5}, h \in {1, START_HEALTH}}

DoorWorlds ==
  {Snapshot(LevelDoors({}), p, START_HEALTH, 0, << >>) : p \in {{}, {1}, {1, 2}}}
  \cup {Snapshot(LevelDoors({1, 2}), {1}, START_HEALTH, 0, << >>)}

\* collectibles of LevelBombs: 1 the weapon, 2 the bomb pickup, 3 the heart
BombWorlds ==
  {Snapshot(LevelBombs, {2}, 1, Len(b), b) : b \in {<< >>} \cup OneBomb}
  \cup {Snapshot(LevelBombs, {2}, START_HEALTH, Len(b), b) : b \in TwoBombs}

\* one health point left, armed, the last explosive burning
DeathWorlds ==
  {Snapshot(LevelBombs, {1, 2}, 1, BOMBS_PER_PICKUP, << BombAt(1, 1, f) >>) :
     f \in Fuses}

ItemWorlds ==
  {Snapshot(LevelItems(ty), {}, h, 0, << >>) :
     ty \in ItemTypes, h \in {1, START_HEALTH}}

ShaftWorlds == {Snapshot(LevelShaft, {}, START_HEALTH, 0, << >>)}

\* direction, rest time and spray time of the traps run without end: the
\* shortest times, and a rest longer than the warning.  With a period of 101
\* frames the trap burns the player once per period, and animationFrame,
\* which a death tick leaves alone, returns to its value after ten periods.
TrapTimes == {<<"left", 1, 1>>, <<"right", 93, 8>>}

CellWorlds ==
  {Snapshot(LevelCell(c[1], c[2], c[3]), {}, h, 0, << >>) :
     c \in TrapTimes, h \in {1, START_HEALTH}}

PatrolWorlds ==
  {Snapshot(LevelPatrol(l[1], l[2]), {}, START_HEALTH, 0, << >>) :
     l \in {<<PacingPair, << >> >>, <<Roamer, << >> >>,
            <<Roamer, TrapInCorridor>>, <<Roamer, TrapInFloor>>}}

\* the obstacle of the resolver's inputs: the Stone tile of LevelBlock
BlockBox == TileBox(1, 1)

\* how far the player reaches into the block from its left and from its top
Depths == {5 * PX, 20 * PX, 35 * PX, 50 * PX, 65 * PX}

\* the player as handleTileCollisions hands it to resolveCollision: moved
\* into the block, at rest, rising or falling, running or not
Overlapping(player) ==
  {[player EXCEPT !.x = BlockBox.x - player.width + dx,
                  !.y = BlockBox.y - player.height + dy,
                  !.velocityX = vx, !.velocityY = vy, !.onGround = g] :
     dx \in Depths, dy \in Depths,
     vx \in {0 - MOVE_SPEED, 0, MOVE_SPEED},
     vy \in {JUMP_POWER, 0, GRAVITY, MAX_FALL},
     g \in BOOLEAN}

BlockWorlds ==
  {[s EXCEPT !.player = p] :
     s \in {Snapshot(LevelBlock, {}, START_HEALTH, 0, << >>)},
     p \in Overlapping(Snapshot(LevelBlock, {}, START_HEALTH, 0, << >>).player)}

\* before a level is loaded, and after loading a level without a grid
VoidWorlds ==
  {createInitialGameState}
  \cup {buildGameStateFromLevel(LevelVoid(s, m, f, h, d)) :
          s \in {<< >>, << Pos(1, 0) >>},
          m \in {<< >>, Roamer, PacingPair},
          f \in {<< >>, TrapInCorridor},
          h \in {<< >>, << Pos(1, 0) >>},
          d \in {<< >>, << [x |-> 2, y |-> 0, open |-> FALSE] >>}}

EdgeWorlds ==
  {Snapshot(LevelEdge(g, << >>, << >>), {}, START_HEALTH, 0, << >>) :
     g \in EdgeGrids}
  \cup {Snapshot(LevelEdge(<< <<Empty, Empty>> >>, TrapAtEdge, << >>),
                 {}, START_HEALTH, 0, << >>),
        Snapshot(LevelEdge(<< <<Empty, Empty>> >>, << >>, DoorAtEdge),
                 {}, START_HEALTH, 0, << >>)}

InitWorlds ==
  ArenaWorlds \cup DoorWorlds \cup BombWorlds \cup DeathWorlds \cup ItemWorlds

\* the page's refs beside the state: gameStateRef.current, the index of
\* currentLevel in publishedLevels, playerDeadRef, levelCompleteRef and the
\* two timeouts.  A timeout holds the frames left until it is due (-1: none
\* pending), the level its callback captured, and whether a level was
\* loaded since it was armed.
NoTimeout == [left |-> -1, level |-> 0, stale |-> FALSE]

HostOf(state) ==
  [ref |-> state, level |-> 1, playerDead |-> FALSE, levelComplete |-> FALSE,
   death |-> NoTimeout, complete |-> NoTimeout]

InitWith(worlds) ==
  /\ gs \in worlds
  /\ events = NoEvents
  /\ opened = FALSE
  /\ lastOp = "init"
  /\ ticks = 0
  /\ sinceDamage = -1
  /\ host = HostOf(gs)

Init == InitWith(InitWorlds)

\* the frame's result becomes the state; sinceDamage counts the frames
\* since health last dropped (-1: never)
Commit(r) ==
  /\ gs' = r.state
  /\ events' = r.events
  /\ sinceDamage' = IF r.state.health < gs.health THEN 0
                    ELSE IF sinceDamage < 0 THEN sinceDamage
                    ELSE sinceDamage + 1

\* requestAnimationFrame callback: setGameState(prev => updateGameFrame(...))
Step(keys) ==
  /\ Commit(updateGameFrame(gs, keys))
  /\ ticks' = ticks + 1
  /\ lastOp' = "frame"
  /\ UNCHANGED <<opened, host>>

Frame == ticks < MaxTicks /\ \E keys \in KeyMaps : Step(keys)

FrameLong == ticks < LongTicks /\ \E keys \in KeyMaps : Step(keys)

\* Over a run without end two counters leave every range: deaths, which
\* no code reads, and health, which the code only compares with 0 and with
\* maxHealth once it is not positive.  They are held at MaxDeaths and at
\* -MaxDeaths.
Settle(state) ==
  [state EXCEPT !.deaths = Min2(state.deaths, MaxDeaths),
                !.health = Max2(state.health, 0 - MaxDeaths)]

Resume(r) == gs' = Settle(r.state) /\ events' = r.events

\* the same callback with no direction key held, not counted in ticks
FrameOn ==
  /\ Resume(updateGameFrame(gs, Released))
  /\ lastOp' = "frame"
  /\ UNCHANGED <<opened, ticks, sinceDamage, host>>

\* keydown " " / touch jump button
Jump ==
  /\ gs.player.onGround
  /\ gs' = [gs EXCEPT !.player = jump(gs.player)]
  /\ lastOp' = "jump"
  /\ UNCHANGED <<events, opened, ticks, sinceDamage, host>>

\* keydown "f" / short press of the action button
Fire ==
  /\ gs.player.hasWeapon /\ gs.ammo > 0
  /\ Len(gs.bullets) < MaxBullets
  /\ gs' = [gs EXCEPT !.bullets = Append(gs.bullets, createPlayerBullet(gs.player)),
                      !.ammo = gs.ammo - 1]
  /\ lastOp' = "fire"
  /\ UNCHANGED <<events, opened, ticks, sinceDamage, host>>

\* keydown "b"
PlaceBomb ==
  /\ gs.bombCount > 0
  /\ Len(gs.placedBombs) < MaxBombs
  /\ gs' = [gs EXCEPT !.placedBombs = Append(gs.placedBombs, createPlacedBomb(gs.player)),
                      !.bombCount = gs.bombCount - 1]
  /\ lastOp' = "bomb"
  /\ UNCHANGED <<events, opened, ticks, sinceDamage, host>>

Opened(r) == gs' = r.state /\ opened' = r.flag

\* keydown "k": setGameState(prev => { next = {...prev}; tryOpenDoor(next) })
OpenDoor ==
  /\ Opened(tryOpenDoor(gs))
  /\ lastOp' = "door"
  /\ UNCHANGED <<events, ticks, sinceDamage, host>>

Next == Frame \/ Jump \/ Fire \/ PlaceBomb \/ OpenDoor

Spec == Init /\ [][Next]_vars

\* the same session on one kind of world, with the handlers that world
\* can enable
NextArena == Frame \/ Jump
SpecArena == InitWith(ArenaWorlds) /\ [][NextArena]_vars

NextDoors == Frame \/ Jump \/ OpenDoor
SpecDoors == InitWith(DoorWorlds) /\ [][NextDoors]_vars

NextBombs == Frame \/ Jump \/ PlaceBomb
SpecBombs == InitWith(BombWorlds) /\ [][NextBombs]_vars

NextDeath == Frame \/ Jump \/ Fire
SpecDeath == InitWith(DeathWorlds) /\ [][NextDeath]_vars

NextItems == Frame \/ Jump \/ Fire \/ PlaceBomb
SpecItems == InitWith(ItemWorlds \cup DeathWorlds) /\ [][NextItems]_vars

\* a long run of frames in the shaft
NextLong == FrameLong
SpecLong == InitWith(ShaftWorlds) /\ [][NextLong]_vars

\* a long run of frames beside the corridor of the monsters
SpecPatrol == InitWith(PatrolWorlds) /\ [][NextLong]_vars

\* resolveCollision(player, box) on its own, as each collision loop calls it
Resolve ==
  /\ gs' = [gs EXCEPT !.player = resolveCollision(gs.player, BlockBox)]
  /\ lastOp' = "resolve"
  /\ UNCHANGED <<events, opened, ticks, sinceDamage, host>>

\* the collision resolver applied to overlapping inputs, once and again
NextResolve == Resolve
SpecResolve == InitWith(BlockWorlds) /\ [][NextResolve]_vars

\* the session while no grid is loaded
NextVoid == Frame \/ OpenDoor
SpecVoid == InitWith(VoidWorlds) /\ [][NextVoid]_vars

\* frames and jumps in the small grids, long enough to land, jump and
\* reach the top edge
FrameEdge == ticks < EdgeTicks /\ \E keys \in KeyMaps : Step(keys)

NextEdge == FrameEdge \/ Jump
SpecEdge == InitWith(EdgeWorlds) /\ [][NextEdge]_vars

\* frames without end in the closed cell, where the player jumps at will:
\* the animation loop calls update again after every frame, so frames are
\* taken again and again.  FrameOn is enabled in every state and changes the
\* trap timer, so this is WF_vars(FrameOn) written without ENABLED.
NextCell == FrameOn \/ Jump

SpecCell == InitWith(CellWorlds) /\ [][NextCell]_vars /\ []<><<FrameOn>>_vars

\* the player shooting along the range: it may turn to the left in the
\* first frames, then stands and fires at will
\* a frame with no direction key held
FrameIdle == ticks < LongTicks /\ Step(Released)

LeftHeld == [left |-> TRUE, right |-> FALSE]

FrameLeft == ticks < MaxTicks /\ Step(LeftHeld)

RangeWorlds == {Snapshot(LevelRange, {1}, START_HEALTH, 0, << >>)}

NextRange == FrameIdle \/ FrameLeft \/ Fire
SpecRange == InitWith(RangeWorlds) /\ [][NextRange]_vars

\* a long run of frames in the arena and beside the corridor with no
\* direction key held, where the traps go through their phases several
\* times and the player jumps at will
NextTraps == FrameIdle \/ Jump
SprayWorlds == {Snapshot(LevelPatrol(<< >>, TrapPair), {}, START_HEALTH, 0, << >>)}

SpecTraps == InitWith(ArenaWorlds \cup SprayWorlds) /\ [][NextTraps]_vars

\* the corridor with one monster as the editor places it, in column 0 or in
\* column 2
WatchWorlds ==
  {Snapshot(LevelPatrol(<< createMonsterAt(c, 0, 6) >>, << >>),
            {}, START_HEALTH, 0, << >>) : c \in {0, 2}}

SpecWatch == InitWith(WatchWorlds) /\ [][NextLong]_vars

\* one key to collect and two doors to open with it
KeyWorlds == {Snapshot(LevelKeyDoors, {}, START_HEALTH, 0, << >>)}

SpecKeys == InitWith(KeyWorlds) /\ [][NextDoors]_vars

\* frames without end on the range with no monster in it and one round
\* left: the animation loop calls update again after every frame (FrameOn
\* is always enabled and changes animationFrame, so this is WF_vars(FrameOn)
\* written without ENABLED)
FlightWorlds ==
  {[Snapshot([LevelRange EXCEPT !.monsters = << >>], {1}, START_HEALTH, 0, << >>)
      EXCEPT !.ammo = 1]}

NextFlight == FrameOn \/ FrameLeft \/ Fire
SpecFlight ==
  InitWith(FlightWorlds) /\ [][NextFlight]_vars /\ []<><<FrameOn>>_vars

\* ------------------------------------------------------------------------
\* pages/GamePage.tsx: levels, refs and timeouts.  Time is counted in
\* frames of the animation loop.
\* ------------------------------------------------------------------------
FRAMES_PER_SECOND == 60
DEATH_TIMEOUT_MS == 500
COMPLETE_TIMEOUT_MS == 1000

\* a corridor: the weapon behind the start cell, the goal before it, and
\* next to the goal a fire trap that sprays over goal and start cell
LevelRace ==
  [EmptyLevel EXCEPT
     !.grid = << <<Empty, Empty, Empty, Empty>>,
                 <<Wall,  Wall,  Wall,  Wall>> >>,
     !.playerStart = << Pos(1, 0) >>,
     !.goal = << Pos(2, 0) >>,
     !.weapons = << Pos(0, 0) >>,
     !.firetraps = << [x |-> 3, y |-> 0, direction |-> "left",
                       sprayDistance |-> 2, sprayTime |-> 20, restTime |-> 3] >>]

publishedLevels == << LevelRace, LevelItems("coin") >>

RightHeld == [left |-> FALSE, right |-> TRUE]

\* setTimeout(callback, ms), the delay counted in frames
Arm(ms, level) ==
  [left |-> (ms * FRAMES_PER_SECOND) \div 1000, level |-> level, stale |-> FALSE]

\* one more frame gone by for a pending timeout
Elapse(timeout) ==
  IF timeout.left > 0 THEN [timeout EXCEPT !.left = @ - 1] ELSE timeout

\* a pending timeout outlives a level load: loadLevel clears none
Outlive(timeout) ==
  IF timeout.left >= 0 THEN [timeout EXCEPT !.stale = TRUE] ELSE timeout

\* the game loop's updater: the frame, then the two event handlers; the
\* render that follows stores the new state in gameStateRef.current
HostAfterFrame(r) ==
  [host EXCEPT
     !.ref = r.state,
     !.playerDead = @ \/ r.events.playerDied,
     !.levelComplete = @ \/ r.events.levelComplete,
     !.death = IF r.events.playerDied /\ ~host.playerDead
               THEN Arm(DEATH_TIMEOUT_MS, host.level) ELSE Elapse(@),
     !.complete = IF r.events.levelComplete /\ ~host.levelComplete
                  THEN Arm(COMPLETE_TIMEOUT_MS, host.level) ELSE Elapse(@)]

\* a frame of the loop; a timeout that is due runs before the next frame
HostStep(keys) ==
  /\ ticks < RaceTicks
  /\ host.death.left # 0 /\ host.complete.left # 0
  /\ Commit(updateGameFrame(gs, keys))
  /\ host' = HostAfterFrame(updateGameFrame(gs, keys))
  /\ ticks' = ticks + 1
  /\ lastOp' = "frame"
  /\ UNCHANGED opened

HostFrame == HostStep(Released)

\* the right key is held during the first frames of the session only
HostFrameRight == ticks < RunTicks /\ HostStep(RightHeld)

\* loadLevel(level): a newly built state replaces the state, the two flags
\* are lowered; gameStateRef.current keeps the old state until the next
\* render
loadLevel(n) ==
  /\ gs' = buildGameStateFromLevel(publishedLevels[n])
  /\ sinceDamage' = -1
  /\ UNCHANGED <<events, opened, ticks>>

Loaded(n) ==
  [host EXCEPT !.level = n, !.playerDead = FALSE, !.levelComplete = FALSE]

\* the death timeout's callback: loadLevel(currentLevel) of its closure
DeathTimeout ==
  /\ host.death.left = 0
  /\ loadLevel(host.death.level)
  /\ host' = [Loaded(host.death.level) EXCEPT
                !.death = NoTimeout, !.complete = Outlive(@)]
  /\ lastOp' = "deathTimeout"

\* the level-complete timeout's callback: handleNextLevel() of its closure,
\* which loads the level after the captured one if there is one
handleNextLevel(n) ==
  IF n < Len(publishedLevels)
  THEN loadLevel(n + 1)
       /\ host' = [Loaded(n + 1) EXCEPT
                     !.complete = NoTimeout, !.death = Outlive(@)]
  ELSE host' = [host EXCEPT !.complete = NoTimeout]
       /\ UNCHANGED <<gs, events, opened, ticks, sinceDamage>>

CompleteTimeout ==
  /\ host.complete.left = 0
  /\ handleNextLevel(host.complete.level)
  /\ lastOp' = "completeTimeout"

\* keydown "f": the guard reads gameStateRef.current, the updater changes
\* the latest state; the render that follows refreshes the ref
PressFire ==
  /\ host.ref.player.hasWeapon /\ host.ref.ammo > 0
  /\ Len(gs.bullets) < MaxBullets
  /\ gs' = [gs EXCEPT !.bullets = Append(gs.bullets, createPlayerBullet(gs.player)),
                      !.ammo = gs.ammo - 1]
  /\ host' = [host EXCEPT !.ref = gs']
  /\ lastOp' = "pressFire"
  /\ UNCHANGED <<events, opened, ticks, sinceDamage>>

\* the first published level with the weapon taken, the last round left
\* and one or two health points
RaceWorlds ==
  {[Snapshot(LevelRace, {1}, h, 0, << >>) EXCEPT !.ammo = 1] : h \in {1, 2}}

NextRace ==
  \/ HostFrame
  \/ HostFrameRight
  \/ DeathTimeout
  \/ CompleteTimeout
  \/ PressFire

SpecRace == InitWith(RaceWorlds) /\ [][NextRace]_vars

\* ------------------------------------------------------------------------
\* Properties
\* ------------------------------------------------------------------------
IsFrameStep == ticks' = ticks + 1

TouchesMonster(state) ==
  \E i \in 1..Len(state.monsters) : checkCollision(state.player, state.monsters[i])

InFire(state) ==
  \E i \in 1..Len(state.firetraps) :
    /\ state.firetraps[i].isActive
    /\ TouchesFire(state.player, state.firetraps[i].fireBlocks)

OnLava(state) ==
  LET cx == Cell(state.player.x + state.player.width \div 2)
      cy == Cell(state.player.y + state.player.height)
  IN  /\ state.player.onGround
      /\ InGrid(state.grid, cx, cy)
      /\ TileAt(state.grid, cx, cy) = Lava

LaterFields(state) ==
  [doors |-> state.doors, collectibles |-> state.collectibles,
   keys |-> state.keys, ammo |-> state.ammo, bombCount |-> state.bombCount,
   bullets |-> state.bullets, placedBombs |-> state.placedBombs,
   grid |-> state.grid, animationFrame |-> state.animationFrame]

OverlapsUncollected(state) ==
  \E i \in 1..Len(state.collectibles) :
    /\ ~state.collectibles[i].collected
    /\ checkCollision(state.player, state.collectibles[i])

BombDue(state) ==
  \E i \in 1..Len(state.placedBombs) : state.placedBombs[i].timer <= 1

\* C2: a tick whose damage brings health to 0 or below reports playerDied
\* and not levelComplete, raises deaths by exactly 1 and runs no later
\* stage: doors, collectibles, keys, ammo, bombCount, bullets, placed bombs
\* and their timers, grid and animationFrame are those of the input.
C2_DeathEndsTheTick ==
  [][IsFrameStep =>
       /\ (gs'.health < gs.health /\ gs'.health <= 0) = events'.playerDied
       /\ (events'.playerDied =>
             /\ ~events'.levelComplete
             /\ gs'.deaths = gs.deaths + 1
             /\ LaterFields(gs') = LaterFields(gs))]_vars

C2_Witness ==
  /\ lastOp = "frame" /\ events.playerDied
  /\ OverlapsUncollected(gs) /\ BombDue(gs) /\ gs.bullets # << >>

\* C3: after any health decrement the shared cooldown keeps every source
\* out for 60 ticks: two successive decrements are at least 60 ticks apart.
\* (sinceDamage counts the frames completed since the last decrement.)
C3_CooldownWindow ==
  [][IsFrameStep /\ gs'.health < gs.health /\ sinceDamage >= 0
       => sinceDamage + 1 >= DAMAGE_COOLDOWN]_vars

\* ------------------------------------------------------------------------
\* Doors
\* ------------------------------------------------------------------------
IsDoorStep == lastOp' = "door"

Doors(state) == 1..Len(state.doors)

ClosedDoors(state) == {i \in Doors(state) : ~state.doors[i].open}

NewlyOpened == {i \in Doors(gs) : ~gs.doors[i].open /\ gs'.doors[i].open}

\* twice the distance between the centres of the player and of door i
TwiceDX(state, i) ==
  Abs((2 * state.player.x + state.player.width)
      - (2 * state.doors[i].x * TILE + TILE))

TwiceDY(state, i) ==
  Abs((2 * state.player.y + state.player.height)
      - (2 * state.doors[i].y * TILE + TILE))

\* the box test: both axes within 1.5 tiles
WithinBox(state, i) ==
  TwiceDX(state, i) <= 3 * TILE /\ TwiceDY(state, i) <= 3 * TILE

Eligible(state) == {i \in ClosedDoors(state) : WithinBox(state, i)}

SquareDistance(state, i) ==
  TwiceDX(state, i) * TwiceDX(state, i) + TwiceDY(state, i) * TwiceDY(state, i)

InsideDoor(state, i) ==
  checkCollision(state.player, TileBox(state.doors[i].x, state.doors[i].y))

\* C4: one open-door action opens at most one door, the eligible closed
\* door nearest to the player, and takes exactly one key, also with several
\* closed doors within the threshold and several keys held.
C4_OpensOneNearestDoor ==
  [][IsDoorStep =>
       /\ Cardinality(NewlyOpened) <= 1
       /\ \A i \in NewlyOpened :
            /\ gs'.keys = gs.keys - 1
            /\ \A j \in Eligible(gs) :
                 SquareDistance(gs, i) <= SquareDistance(gs, j)]_vars

\* the door stage of the frame that leads from gs to gs' leaves the doors
\* and the keys alone and the player outside every closed door, at the
\* place where the frame leaves the player
PushedOut ==
  \A keys \in KeyMaps :
    gs' = updateGameFrame(gs, keys).state =>
      LET moved == DamageStages(MovePlayer(gs, keys)).state
          resolved == handleDoorCollisions(moved)
      IN  /\ resolved.doors = moved.doors
          /\ resolved.keys = moved.keys
          /\ \A i \in ClosedDoors(resolved) : ~InsideDoor(resolved, i)
          /\ (~events'.playerDied =>
                /\ gs'.player.x = resolved.player.x
                /\ gs'.player.y = resolved.player.y)

PressedAgainst(state, i) ==
  /\ ~state.doors[i].open
  /\ state.player.velocityX = 0
  /\ \/ state.player.x = (state.doors[i].x + 1) * TILE
     \/ state.player.x + state.player.width = state.doors[i].x * TILE
  /\ state.player.y < (state.doors[i].y + 1) * TILE
  /\ state.player.y + state.player.height > state.doors[i].y * TILE

C6_NoOpWithoutPreconditions ==
  [][IsDoorStep =>
       /\ (gs.keys = 0 \/ Eligible(gs) = {}) => (~opened' /\ gs' = gs)
       /\ (gs.keys = 1 /\ Cardinality(Eligible(gs)) = 1) =>
            /\ opened'
            /\ NewlyOpened = Eligible(gs)
            /\ gs'.keys = 0
       /\ \A i \in NewlyOpened : i \in Eligible(gs) /\ gs.keys > 0]_vars

\* an action that returned false for want of a key, next to a door opened
\* earlier and a closed door in the box
C6_Witness ==
  /\ lastOp = "door" /\ ~opened /\ gs.keys = 0
  /\ Eligible(gs) # {}
  /\ \E i \in Doors(gs) : gs.doors[i].open /\ WithinBox(gs, i)

\* the world with its open doors taken away
WithoutOpenDoors(state) ==
  [state EXCEPT !.doors = SelectSeq(state.doors, LAMBDA d : ~d.open)]

\* C8: no frame and no open-door action closes an open door, and an open
\* door is no obstacle: a frame moves the player exactly as it would in the
\* same world without its open doors.
C8_DoorsStayOpen ==
  [][/\ Len(gs'.doors) = Len(gs.doors)
     /\ \A i \in Doors(gs) : gs.doors[i].open => gs'.doors[i].open
     /\ IsFrameStep =>
          \A keys \in KeyMaps :
            gs' = updateGameFrame(gs, keys).state =>
              gs'.player = updateGameFrame(WithoutOpenDoors(gs), keys).state.player]_vars

\* the player standing inside the tile of a door that the action opened
\* with the only key
C8_Witness ==
  /\ lastOp = "frame"
  /\ \E i \in Doors(gs) :
       gs.doors[i].open /\ InsideDoor(gs, i)
  /\ gs.keys = 0 /\ gs.collectibles[1].collected /\ ~gs.collectibles[2].collected
  /\ ~gs.doors[2].open

\* ------------------------------------------------------------------------
\* Collectibles
\* ------------------------------------------------------------------------
Items(state) == 1..Len(state.collectibles)

NewlyCollected ==
  {i \in Items(gs) : ~gs.collectibles[i].collected /\ gs'.collectibles[i].collected}

NewOf(type) == Cardinality({i \in NewlyCollected : gs.collectibles[i].type = type})

\* the uncollected items the player overlaps where the frame leaves it
Overlapped ==
  {i \in Items(gs) : /\ ~gs.collectibles[i].collected
                     /\ checkCollision(gs'.player, gs.collectibles[i])}

\* no flag returns to false, and only a frame collects
FlagsMonotonic ==
  /\ Len(gs'.collectibles) = Len(gs.collectibles)
  /\ \A i \in Items(gs) :
       gs.collectibles[i].collected => gs'.collectibles[i].collected
  /\ (~IsFrameStep => NewlyCollected = {})

\* keys, ammo, hasWeapon, bombCount and health change by the effects of the
\* items collected in the frame and by nothing else
EffectsOfNew ==
  /\ events'.itemCollected = (NewlyCollected # {})
  /\ gs'.keys = gs.keys + NewOf("key")
  /\ gs'.ammo = gs.ammo + AMMO_PER_WEAPON * NewOf("weapon")
  /\ gs'.player.hasWeapon = (gs.player.hasWeapon \/ NewOf("weapon") > 0)
  /\ gs'.bombCount = gs.bombCount + BOMBS_PER_PICKUP * NewOf("bomb")
  /\ (~events'.tookDamage =>
        gs'.health = Min2(gs.maxHealth, gs.health + NewOf("heart")))

\* C7 as stated: a collected flag never returns to false, and every frame
\* collects exactly the uncollected items the player overlaps, applying
\* their effects then and never again: an item's effect is applied in the
\* first frame of overlap.
C7_CollectedInFirstOverlapTick ==
  [][/\ FlagsMonotonic
     /\ (IsFrameStep => NewlyCollected = Overlapped /\ EffectsOfNew)]_vars

\* C7: the same for the frames that the player survives; the frame in
\* which the player dies collects nothing, so an item first overlapped in
\* that frame is collected, once, in the first later frame of overlap.
C7_CollectedOnce ==
  [][/\ FlagsMonotonic
     /\ (IsFrameStep =>
           IF events'.playerDied
           THEN NewlyCollected = {} /\ gs'.keys = gs.keys /\ gs'.ammo = gs.ammo
                /\ gs'.bombCount = gs.bombCount
           ELSE NewlyCollected = Overlapped /\ EffectsOfNew)]_vars

\* the player standing on the heart first overlapped in the frame of the
\* death and collected in the frame after it, with its effect applied once
C7_Witness ==
  /\ lastOp = "frame" /\ ~events.itemCollected /\ gs.deaths = 1
  /\ \E i \in Items(gs) :
       /\ gs.collectibles[i].collected /\ gs.collectibles[i].type = "heart"
       /\ checkCollision(gs.player, gs.collectibles[i])
  /\ gs.health = 1

\* ------------------------------------------------------------------------
\* Bombs
\* ------------------------------------------------------------------------
Chebyshev(bomb, cx, cy) == Max2(Abs(cx - bomb.x), Abs(cy - bomb.y))

\* the bombs whose countdown ends in the coming frame
DueBombs(state) ==
  {i \in 1..Len(state.placedBombs) : state.placedBombs[i].timer <= 1}

\* cell (cx, cy) lies in the blast of a bomb due in state
Blasted(state, cx, cy) ==
  \E i \in DueBombs(state) :
    Chebyshev(state.placedBombs[i], cx, cy) <= BOMB_BLAST_RADIUS

\* C9: a frame keeps the grid's dimensions and every cell's value, except
\* that a Stone cell within Chebyshev distance 2 of a bomb detonating in the
\* frame becomes Empty; no other action touches the grid.
C9_BlastContainment ==
  [][/\ Len(gs'.grid) = Len(gs.grid)
     /\ \A r \in 1..Len(gs.grid) :
          /\ Len(gs'.grid[r]) = Len(gs.grid[r])
          /\ \A c \in 1..Len(gs.grid[r]) :
               gs'.grid[r][c] =
                 IF /\ IsFrameStep /\ ~events'.playerDied
                    /\ gs.grid[r][c] = Stone
                    /\ Blasted(gs, c - 1, r - 1)
                 THEN Empty
                 ELSE gs.grid[r][c]]_vars

\* a blast at the start cell reaching past three edges of the grid: the
\* Stone at distance 2 is gone, the Stone at distance 3 and the Wall, Lava
\* and Platform cells inside the blast are there
C9_Witness ==
  /\ lastOp = "frame"
  /\ Len(gs.grid) = 3 /\ Len(gs.grid[1]) = 6
  /\ gs.grid[1][4] = Empty /\ gs.grid[1][1] = Empty /\ gs.grid[3][3] = Empty
  /\ gs.grid[1][5] = Stone
  /\ gs.grid[2][4] = Wall /\ gs.grid[3][1] = Lava /\ gs.grid[1][3] = Platform

\* the bombs left by one frame of countdown
Advance(placedBombs) ==
  SelectSeq([i \in 1..Len(placedBombs) |->
               [placedBombs[i] EXCEPT !.timer = placedBombs[i].timer - 1]],
            LAMBDA b : b.timer >= 1)

\* every in-bounds Stone cell in the blast of a bomb due in gs is Empty in gs'
BlastCleared ==
  \A r \in 1..Len(gs.grid) : \A c \in 1..Len(gs.grid[r]) :
    Blasted(gs, c - 1, r - 1) /\ gs.grid[r][c] = Stone => gs'.grid[r][c] = Empty

\* the bombs of gs are all in gs', as they were
BombsKept ==
  /\ Len(gs'.placedBombs) >= Len(gs.placedBombs)
  /\ SubSeq(gs'.placedBombs, 1, Len(gs.placedBombs)) = gs.placedBombs

\* C10 as stated: every frame lowers each placed bomb's timer by exactly 1,
\* keeps the bomb while the timer stays positive and, in the frame the timer
\* reaches 0, removes it and empties the Stone cells of its blast.
C10_CountdownEveryTick ==
  [][IF IsFrameStep
     THEN gs'.placedBombs = Advance(gs.placedBombs) /\ BlastCleared
     ELSE BombsKept]_vars

\* C10: the same, counting only the frames in which the player does not
\* die; the frame in which the player dies leaves every bomb and its timer
\* as they were.
C10_CountdownInCompletedTicks ==
  [][IF IsFrameStep
     THEN IF events'.playerDied
          THEN gs'.placedBombs = gs.placedBombs
          ELSE gs'.placedBombs = Advance(gs.placedBombs) /\ BlastCleared
     ELSE BombsKept]_vars

\* a bomb of fuse MaxFuse held up by the frame of the player's death and
\* gone, with its blast, one frame later
C10_Witness ==
  /\ lastOp = "frame" /\ ticks = MaxFuse + 1
  /\ gs.deaths = 1 /\ gs.placedBombs = << >>
  /\ gs.grid[2][3] = Empty /\ gs.bombCount = BOMBS_PER_PICKUP - 1

\* ------------------------------------------------------------------------
\* Fire traps over frames without end
\* ------------------------------------------------------------------------
CellTrap == gs.firetraps[1]

\* C11: under repeated frames a fire trap with restTime >= 1 and
\* sprayTime >= 1 is resting infinitely often and active infinitely often,
\* and is never stuck in its warning, whatever the player does and whether
\* or not the player dies.
C11_HazardCycles ==
  /\ []<>(~CellTrap.isActive)
  /\ []<>(CellTrap.isActive)
  /\ []<>(~CellTrap.warning)

\* the trap warns of its next spray after it has killed the player
C11_Witness ==
  /\ gs.deaths > 0 /\ gs.health <= 0
  /\ ~CellTrap.isActive /\ CellTrap.warning
\* ------------------------------------------------------------------------
\* Monsters
\* ------------------------------------------------------------------------
Monsters(state) == 1..Len(state.monsters)

Column(m) == Cell(m.x)

\* where the monster tries to go
Attempted(m) == [m EXCEPT !.x = m.x + m.speed * m.direction]

InsidePatrol(m) == m.patrol[1] < Column(m) /\ Column(m) < m.patrol[2]

\* the rectangle overlaps a Wall, Stone or Platform tile of the grid
OverlapsSolid(state, m) ==
  \E cy \in 0..(GridHeight(state.grid) - 1), cx \in 0..(GridWidth(state.grid) - 1) :
    /\ IsSolidForMonster(TileAt(state.grid, cx, cy))
    /\ checkCollision(m, TileBox(cx, cy))

\* C12: a monster inside its patrol [c0, c1] with direction +1 has
\* direction -1 after the tick in which its attempted move would put its
\* grid column at c1, and its column is never above c1 nor below c0.
C12_TurnsAtPatrolBound ==
  [][IsFrameStep =>
       \A i \in Monsters(gs) :
         InsidePatrol(gs.monsters[i]) =>
           /\ (/\ gs.monsters[i].direction = 1
               /\ Column(Attempted(gs.monsters[i])) = gs.monsters[i].patrol[2])
                => gs'.monsters[i].direction = -1
           /\ Column(gs'.monsters[i]) <= gs.monsters[i].patrol[2]
           /\ Column(gs'.monsters[i]) >= gs.monsters[i].patrol[1]]_vars

\* a monster turned back by its right bound alone, in free space
C12_Witness ==
  /\ lastOp = "frame"
  /\ \E i \in Monsters(gs) :
       /\ gs.monsters[i].direction = -1
       /\ Cell(gs.monsters[i].x + gs.monsters[i].speed) = gs.monsters[i].patrol[2]
       /\ ~OverlapsSolid(gs, [gs.monsters[i] EXCEPT
                                !.x = gs.monsters[i].x + gs.monsters[i].speed])
\* ------------------------------------------------------------------------
\* The collision resolver
\* ------------------------------------------------------------------------
\* C13: for a player that overlaps a box, one resolveCollision leaves the
\* two not overlapping, and a second one leaves the player's position,
\* velocity and onGround unchanged.
C13_ResolutionIdempotent ==
  [][lastOp' = "resolve" =>
       /\ lastOp = "init" => ~checkCollision(gs'.player, BlockBox)
       /\ lastOp = "resolve" => gs'.player = gs.player]_vars
\* ------------------------------------------------------------------------
\* The grounded flag
\* ------------------------------------------------------------------------
\* the player after input, gravity and integration, before any correction
Integrated(state, keys) ==
  LET p == applyGravity(movePlayerHorizontal(state.player,
                                             HorizontalDirection(keys)))
  IN  [p EXCEPT !.x = p.x + p.velocityX, !.y = p.y + p.velocityY]

\* the obstacles of the tile stage in the order they are tried: the solid
\* tiles of the 4x4 scan, the four boundary walls, the trap blocks
ScanBoxes(grid, gridX, gridY) ==
  LET cells == [k \in 1..16 |-> [x |-> gridX + ((k - 1) % 4) - 1,
                                 y |-> gridY + ((k - 1) \div 4) - 1]]
      solid == SelectSeq(cells, LAMBDA c :
                 /\ InGrid(grid, c.x, c.y)
                 /\ IsSolidForPlayer(TileAt(grid, c.x, c.y)))
  IN  [k \in 1..Len(solid) |-> TileBox(solid[k].x, solid[k].y)]

WallBoxes(grid) ==
  LET w == GridWidth(grid) * TILE
      h == GridHeight(grid) * TILE
  IN  << [x |-> 0 - TILE, y |-> 0, width |-> TILE, height |-> h],
         [x |-> w, y |-> 0, width |-> TILE, height |-> h],
         [x |-> 0, y |-> 0 - TILE, width |-> w, height |-> TILE],
         [x |-> 0, y |-> h, width |-> w, height |-> TILE] >>

TrapBoxes(traps) == [k \in 1..Len(traps) |-> TileBox(traps[k].x, traps[k].y)]

ClosedDoorBoxes(doors) ==
  LET closed == SelectSeq(doors, LAMBDA d : ~d.open)
  IN  [k \in 1..Len(closed) |-> TileBox(closed[k].x, closed[k].y)]

\* the correction of this player against this box would be the one that
\* puts it on top of the box: least overlap at the top, moving down
Landing(player, box) ==
  /\ checkCollision(player, box)
  /\ player.velocityY > 0
  /\ player.y + player.height - box.y
       = Min4(player.x + player.width - box.x, box.x + box.width - player.x,
              player.y + player.height - box.y, box.y + box.height - player.y)

RECURSIVE Corrected(_, _, _)
Corrected(player, boxes, i) ==
  IF i > Len(boxes) THEN player
  ELSE Corrected(Collide(player, boxes[i]), boxes, i + 1)

RECURSIVE LandsOn(_, _, _)
LandsOn(player, boxes, i) ==
  /\ i <= Len(boxes)
  /\ \/ Landing(player, boxes[i])
     \/ LandsOn(Collide(player, boxes[i]), boxes, i + 1)

\* some correction of the step put the player on top of an obstacle
FloorCorrection(state, keys) ==
  LET p == Integrated(state, keys)
      first == ScanBoxes(state.grid, Cell(p.x), Cell(p.y))
                 \o WallBoxes(state.grid) \o TrapBoxes(state.firetraps)
      died == updateGameFrame(state, keys).events.playerDied
  IN  \/ LandsOn(p, first, 1)
      \/ /\ ~died
         /\ LandsOn(Corrected(p, first, 1), ClosedDoorBoxes(state.doors), 1)

\* C14: after a frame step onGround is true if and only if a collision
\* correction of that step placed the player on top of an obstacle while it
\* was moving down; the flag of the state before the step does not count.
C14_GroundedByThisStep ==
  [][IsFrameStep =>
       \A keys \in KeyMaps :
         gs' = updateGameFrame(gs, keys).state =>
           (gs'.player.onGround <=> FloorCorrection(gs, keys))]_vars

\* the frame after a jump from the ground: rising, and no longer grounded
C14_Witness ==
  /\ lastOp = "frame"
  /\ gs.player.velocityY < 0
  /\ ~gs.player.onGround
C16_EmptyGridNoOp ==
  [][IsFrameStep /\ Len(gs.grid) = 0 => gs' = gs /\ events' = NoEvents]_vars

\* a frame was taken on a gridless state that holds a monster above the
\* player's head, a fire trap and a heart on the player
C16_Witness ==
  /\ lastOp = "frame"
  /\ Len(gs.grid) = 0
  /\ Len(gs.monsters) > 0 /\ Len(gs.firetraps) > 0
  /\ \E i \in 1..Len(gs.collectibles) :
       checkCollision(gs.player, gs.collectibles[i])
\* ------------------------------------------------------------------------
\* The boundary walls
\* ------------------------------------------------------------------------
\* C17: starting inside the world rectangle [0, gridWidth * TILE_SIZE] x
\* [0, gridHeight * TILE_SIZE], the player's rectangle is entirely inside
\* it after every frame step, whatever the inputs and the tile layout.
C17_PlayerStaysInWorld ==
  /\ gs.player.x >= 0
  /\ gs.player.y >= 0
  /\ gs.player.x + gs.player.width <= GridWidth(gs.grid) * TILE
  /\ gs.player.y + gs.player.height <= GridHeight(gs.grid) * TILE

\* a frame has put the jumping, left-running player back into the top
\* left corner of the world
C17_Witness ==
  /\ lastOp = "frame"
  /\ gs.player.x = 0 /\ gs.player.velocityX = 0
  /\ gs.player.y = 0 /\ gs.player.velocityY = 0
\* ------------------------------------------------------------------------
\* The bomb pickup
\* ------------------------------------------------------------------------
\* C18: collecting a bomb collectible raises bombCount by exactly 1: a
\* frame raises bombCount by the number of bomb items it collects.
C18_BombPickupAddsOne ==
  [][IsFrameStep => gs'.bombCount = gs.bombCount + NewOf("bomb")]_vars
\* ------------------------------------------------------------------------
\* Monsters and fire traps
\* ------------------------------------------------------------------------
\* the rectangle overlaps the tile a fire trap stands on
OnTrapBlock(state, m) ==
  \E k \in 1..Len(state.firetraps) :
    checkCollision(m, TileBox(state.firetraps[k].x, state.firetraps[k].y))

\* the rectangle overlaps a tile the fire of an active trap occupies
InFireOf(state, m) ==
  \E k \in 1..Len(state.firetraps) :
    /\ state.firetraps[k].isActive
    /\ \E j \in 1..Len(state.firetraps[k].fireBlocks) :
         checkCollision(m, TileBox(state.firetraps[k].fireBlocks[j].x,
                                   state.firetraps[k].fireBlocks[j].y))

Turned(m, m2) == m2.x = m.x /\ m2.direction = 0 - m.direction

Advanced(m, m2) == m2.x = Attempted(m).x /\ m2.direction = m.direction

AtPatrolBound(m) ==
  Column(m) <= m.patrol[1] \/ Column(m) >= m.patrol[2]

\* C19 as stated: a monster whose attempted move would overlap a tile of an
\* active trap's fire reverses its direction and discards the move.
C19_TurnsAtFire ==
  [][IsFrameStep =>
       \A i \in Monsters(gs) :
         InFireOf(gs, Attempted(gs.monsters[i]))
           => Turned(gs.monsters[i], gs'.monsters[i])]_vars

\* C19: a monster whose attempted move would overlap the tile a fire trap
\* stands on, active or not, reverses its direction and discards the move;
\* the fire of an active trap does not stop a monster: where nothing but
\* fire is in its way, the monster moves on into it.
C19_TurnsAtTrapBlock ==
  [][IsFrameStep =>
       \A i \in Monsters(gs) :
         /\ OnTrapBlock(gs, Attempted(gs.monsters[i]))
              => Turned(gs.monsters[i], gs'.monsters[i])
         /\ (/\ InFireOf(gs, Attempted(gs.monsters[i]))
             /\ ~OnTrapBlock(gs, Attempted(gs.monsters[i]))
             /\ ~OverlapsSolid(gs, Attempted(gs.monsters[i]))
             /\ ~AtPatrolBound(Attempted(gs.monsters[i])))
              => Advanced(gs.monsters[i], gs'.monsters[i])]_vars

\* a monster standing in the fire, turned back by the block of the trap
C19_Witness ==
  /\ lastOp = "frame"
  /\ \E i \in Monsters(gs) :
       /\ gs.monsters[i].direction = -1
       /\ InFireOf(gs, gs.monsters[i])
       /\ OnTrapBlock(gs, [gs.monsters[i] EXCEPT
                             !.x = gs.monsters[i].x + gs.monsters[i].speed])

\* C20: in a frame each monster either advances by speed * direction and
\* keeps its direction, or keeps its x and reverses; it reverses exactly
\* when the attempted position overlaps a Wall, Stone or Platform tile or
\* the tile of a fire trap, or lies in a column <= patrol[0] or >=
\* patrol[1]; its y never changes; a monster that overlaps no solid tile
\* before the frame overlaps none after it.
C20_AdvanceOrTurn ==
  [][IsFrameStep =>
       /\ Len(gs'.monsters) = Len(gs.monsters)
       /\ \A i \in Monsters(gs) :
            /\ gs'.monsters[i].y = gs.monsters[i].y
            /\ IF \/ OverlapsSolid(gs, Attempted(gs.monsters[i]))
                  \/ OnTrapBlock(gs, Attempted(gs.monsters[i]))
                  \/ AtPatrolBound(Attempted(gs.monsters[i]))
               THEN Turned(gs.monsters[i], gs'.monsters[i])
               ELSE Advanced(gs.monsters[i], gs'.monsters[i])
            /\ ~OverlapsSolid(gs, gs.monsters[i])
                 => ~OverlapsSolid(gs', gs'.monsters[i])]_vars

\* a monster turned back by the wall of the corridor, inside its patrol
C20_Witness ==
  /\ lastOp = "frame"
  /\ \E i \in Monsters(gs) :
       /\ gs.monsters[i].direction = -1
       /\ ~OverlapsSolid(gs, gs.monsters[i])
       /\ OverlapsSolid(gs, [gs.monsters[i] EXCEPT
                               !.x = gs.monsters[i].x + gs.monsters[i].speed])
       /\ ~AtPatrolBound([gs.monsters[i] EXCEPT
                            !.x = gs.monsters[i].x + gs.monsters[i].speed])
\* ------------------------------------------------------------------------
\* Fire-trap phases
\* ------------------------------------------------------------------------
Traps(state) == 1..Len(state.firetraps)

\* the length of the phase a trap is in
PhaseTime(trap) == IF trap.isActive THEN trap.sprayTime ELSE trap.restTime

\* C21: a trap that turns active has its timer set to sprayTime and is seen
\* active after exactly sprayTime ticks in a row before it rests; a trap
\* that turns resting has its timer set to restTime and is seen resting
\* after exactly restTime ticks in a row before it is active again: the
\* timer is always between 1 and the length of the phase, every tick lowers
\* it by exactly 1 and keeps the phase while it stays above 0, and the tick
\* that would take it to 0 changes the phase and sets the timer to the
\* length of the new phase; ticks in which the player dies are no
\* exception.
C21_PhaseDurationsExact ==
  /\ [](\A k \in Traps(gs) :
         /\ gs.firetraps[k].timer >= 1
         /\ gs.firetraps[k].timer <= PhaseTime(gs.firetraps[k]))
  /\ [][IsFrameStep =>
         \A k \in Traps(gs) :
           IF gs.firetraps[k].timer > 1
           THEN /\ gs'.firetraps[k].isActive = gs.firetraps[k].isActive
                /\ gs'.firetraps[k].timer = gs.firetraps[k].timer - 1
           ELSE /\ gs'.firetraps[k].isActive = ~gs.firetraps[k].isActive
                /\ gs'.firetraps[k].timer = PhaseTime(gs'.firetraps[k])]_vars

\* the player dies in a tick in the middle of a rest the trap turned to
C21_Witness ==
  /\ lastOp = "frame"
  /\ events.playerDied
  /\ ticks > gs.firetraps[1].restTime + gs.firetraps[1].sprayTime
  /\ ~gs.firetraps[1].isActive
  /\ gs.firetraps[1].timer > 1
  /\ gs.firetraps[1].timer < gs.firetraps[1].restTime
\* the number of cells the fire of an active trap has reached
FireReach(trap) ==
  Min2((trap.sprayTime - trap.timer) \div FRAMES_PER_BLOCK + 1, trap.sprayDistance)

FireCells(trap) == {trap.fireBlocks[j] : j \in 1..Len(trap.fireBlocks)}

\* C22: after every tick a resting trap has no fire blocks, and the fire
\* blocks of an active trap are exactly the cells inside the grid at offsets
\* 1..k from the trap's cell in its direction, each once, where
\* k = min(floor((sprayTime - timer) / 9) + 1, sprayDistance): never more
\* than sprayDistance cells, never a cell outside the grid, never the
\* trap's own cell; and the list never shrinks while the trap stays active.
C22_FireTilesExact ==
  /\ [](\A k \in Traps(gs) :
         IF ~gs.firetraps[k].isActive
         THEN gs.firetraps[k].fireBlocks = << >>
         ELSE /\ FireCells(gs.firetraps[k]) =
                   {c \in {FireCell(gs.firetraps[k], i) :
                             i \in 1..FireReach(gs.firetraps[k])} :
                      /\ c.x >= 0 /\ c.x < Len(gs.grid[1])
                      /\ c.y >= 0 /\ c.y < Len(gs.grid)}
              /\ Cardinality(FireCells(gs.firetraps[k])) =
                   Len(gs.firetraps[k].fireBlocks)
              /\ Len(gs.firetraps[k].fireBlocks) <= gs.firetraps[k].sprayDistance
              /\ \A c \in FireCells(gs.firetraps[k]) :
                   /\ c.x >= 0 /\ c.x < Len(gs.grid[1])
                   /\ c.y >= 0 /\ c.y < Len(gs.grid)
                   /\ ~(c.x = gs.firetraps[k].x /\ c.y = gs.firetraps[k].y))
  /\ [][IsFrameStep =>
         \A k \in Traps(gs) :
           (gs.firetraps[k].isActive /\ gs'.firetraps[k].isActive)
             => Len(gs'.firetraps[k].fireBlocks) >= Len(gs.firetraps[k].fireBlocks)]_vars

\* one trap has grown to its full reach inside the grid while the fire of
\* the other is cut off at the edge of the grid
C22_Witness ==
  /\ lastOp = "frame"
  /\ Len(gs.firetraps) = 2
  /\ gs.firetraps[1].isActive
  /\ Len(gs.firetraps[1].fireBlocks) = 3
  /\ gs.firetraps[2].isActive
  /\ FireReach(gs.firetraps[2]) = 2
  /\ Len(gs.firetraps[2].fireBlocks) = 1
\* ------------------------------------------------------------------------
\* Bullets
\* ------------------------------------------------------------------------
\* a frame step that ran to its end
IsCompletedStep == IsFrameStep /\ Len(gs.grid) > 0 /\ ~events'.playerDied

RECURSIVE HealthSum(_)
HealthSum(monsters) ==
  IF monsters = << >> THEN 0
  ELSE Head(monsters).health + HealthSum(Tail(monsters))

Flown(bullet) == [bullet EXCEPT !.x = bullet.x + bullet.velocityX]

\* the monsters where the bullet stage of this frame finds them
Marched(state) == [j \in Monsters(state) |-> MoveMonster(state, state.monsters[j])]

\* bullet i of the state, advanced, overlaps a live monster
Strikes(state, i) ==
  \E j \in Monsters(state) :
    /\ state.monsters[j].health > 0
    /\ checkCollision(Flown(state.bullets[i]), Marched(state)[j])

\* C23: in the tick in which the advanced position of a bullet overlaps a
\* live monster the bullet is not among the returned bullets, exactly one
\* monster loses exactly 1 health because of it (the health of all
\* monsters, a removed one counting 0, falls by 1), and after a completed
\* step every monster has health >= 1.
C23_OneMonsterPerBullet ==
  [][IsCompletedStep =>
       /\ \A j \in Monsters(gs') : gs'.monsters[j].health >= 1
       /\ (Len(gs.bullets) = 1 /\ Strikes(gs, 1)) =>
            /\ gs'.bullets = << >>
            /\ HealthSum(gs.monsters) - HealthSum(gs'.monsters) = 1]_vars
Bullets(state) == 1..Len(state.bullets)

\* the bullet, advanced, overlaps no monster at all
Misses(state, i) ==
  \A j \in Monsters(state) :
    ~checkCollision(Flown(state.bullets[i]), Marched(state)[j])

\* the cell of the bullet's top-left corner is in the grid and is no Wall
InOpenCell(state, bullet) ==
  /\ Cell(bullet.y) >= 0 /\ Cell(bullet.y) < Len(state.grid)
  /\ Cell(bullet.x) >= 0 /\ Cell(bullet.x) < Len(state.grid[1])
  /\ state.grid[Cell(bullet.y) + 1][Cell(bullet.x) + 1] # Wall

\* C24: a bullet that hits no monster moves by exactly its velocityX in a
\* completed tick and is removed in the tick in which the cell of its
\* advanced top-left corner is outside the grid or a Wall, and kept
\* otherwise; no bullet appears in a tick; after a completed step no bullet
\* lies outside the grid or in a Wall cell; and every bullet is removed in
\* the end.
C24_BulletFlight ==
  /\ [][IsCompletedStep =>
         /\ \A i \in Bullets(gs) :
              Misses(gs, i) =>
                ((\E k \in Bullets(gs') : gs'.bullets[k] = Flown(gs.bullets[i]))
                   <=> InOpenCell(gs, Flown(gs.bullets[i])))
         /\ \A k \in Bullets(gs') :
              /\ \E i \in Bullets(gs) : gs'.bullets[k] = Flown(gs.bullets[i])
              /\ InOpenCell(gs', gs'.bullets[k])
         /\ Len(gs'.bullets) <= Len(gs.bullets)]_vars
  /\ [](\A i \in Bullets(gs) : gs.bullets[i].velocityX # 0)
  /\ (gs.bullets # << >>) ~> (gs.bullets = << >>)

\* the last round was fired to the right and its bullet is gone: only the
\* wall at the end of the range can have stopped it
C24_Witness ==
  /\ lastOp = "frame"
  /\ gs.player.facingRight
  /\ gs.ammo = 0
  /\ gs.bullets = << >>
\* ------------------------------------------------------------------------
\* Keys
\* ------------------------------------------------------------------------
CollectedKeys(state) ==
  Cardinality({i \in Items(state) : /\ state.collectibles[i].type = "key"
                                    /\ state.collectibles[i].collected})

OpenDoors(state) == Cardinality({i \in Doors(state) : state.doors[i].open})

C29_UpdaterKeepsPrev ==
  [][IsDoorStep =>
       /\ HeldAfterOpen(gs) = gs
       /\ tryOpenDoor(HeldAfterOpen(gs)).state = gs']_vars
\* ------------------------------------------------------------------------
\* Frozen monsters
\* ------------------------------------------------------------------------
\* the move the monster attempts is discarded
MustTurn(state, m) ==
  \/ OverlapsSolid(state, Attempted(m))
  \/ OnTrapBlock(state, Attempted(m))
  \/ AtPatrolBound(Attempted(m))

\* C28: no monster is frozen: every monster with speed > 0 and
\* patrol[0] < patrol[1] changes its x in the end, whatever its spawn
\* column.  The grid and the traps stand still, so a monster that kept its
\* x in a frame and has to discard its next move as well is back where it
\* was with the direction it had, and never moves: the claim says that no
\* frame leaves a monster so.
C28_NoMonsterFrozen ==
  [][IsFrameStep =>
       \A i \in Monsters(gs) :
         (/\ gs.monsters[i].speed > 0
          /\ gs.monsters[i].patrol[1] < gs.monsters[i].patrol[2]
          /\ gs'.monsters[i].x = gs.monsters[i].x)
           => ~MustTurn(gs', gs'.monsters[i])]_vars

IsPressStep == lastOp' = "pressFire"

\* C25: ammo and bombCount are never negative, whatever the order of key
\* handlers, frames and level loads: a press of the fire key whose guard
\* read gameStateRef.current leaves ammo >= 0 and bombCount >= 0 in the
\* state its updater produced.
C25_CountsNeverNegative ==
  [][IsPressStep => gs'.ammo >= 0 /\ gs'.bombCount >= 0]_vars

IsDeathReload == lastOp' = "deathTimeout" /\ host.death.left = 0

IsAdvance ==
  /\ lastOp' = "completeTimeout"
  /\ host.complete.left = 0
  /\ host'.level # host.level

\* C26: a level load supersedes the timeouts armed before it: the death
\* timeout that reloads a level and the level-complete timeout that loads
\* the next level were both armed after the latest level load.
C26_LoadSupersedesTimeouts ==
  [][/\ IsDeathReload => ~host.death.stale
     /\ IsAdvance => ~host.complete.stale]_vars

\* C30: the death counter does not go down across a death reset: the world
\* rebuilt by the death timeout has at least the deaths of the world it
\* replaces.
C30_DeathsKeptAcrossReset ==
  [][IsDeathReload => gs'.deaths >= gs.deaths]_vars

====
